---------------------------- MODULE Spec2Model ----------------------------
(***************************************************************************)
(* A model of jss_helper_lib/tools.py (wildcard_search, search_for_object, *)
(* find_objects_in_containers) and of the "installs" action of             *)
(* jss_helper_lib/actions.py.                                              *)
(*                                                                         *)
(* Strings are sequences of one-character strings, so that matching,       *)
(* upper-casing and membership of a wildcard character are computed        *)
(* character by character as the Python code computes them.                *)
(***************************************************************************)
EXTENDS Naturals, Sequences, FiniteSets, Bags, TLC

\* ------------------------------------------------------------------ bounds
MaxPatLen == 3
MaxObjs == 2
MaxSearchLen == 2
MaxTargets == 2
MaxContainers == 2
MaxElems == 2
MaxScoped == 2
MaxStemLen == 3
MaxOptions == 3
MaxPackages == 3
MaxPolicies == 2
MaxInstalled == 2
MaxResults == 2
MaxHeadingLen == 3
MaxMemberTerms == 2
MaxQueries == 2
MaxMenu == 2
MaxChoices == 2
MaxGets == 4
MaxSetups == 2

\* ------------------------------------------------------------- characters
\* tools.py:35  WILDCARDS = "*?[]"
WILDCARDS == <<"*", "?", "[", "]">>

PatChars == {"a", "A", "*", "?", "[", "]", "!"}

Range(s) == {s[i] : i \in DOMAIN s}

RECURSIVE SeqsUpTo(_, _)
SeqsUpTo(S, n) ==
    IF n = 0 THEN {<<>>}
    ELSE LET shorter == SeqsUpTo(S, n - 1)
         IN  shorter \cup {Append(s, c) : s \in shorter, c \in S}

\* str.upper() on one character, and on a string.
UpperChar(c) ==
    IF c = "a" THEN "A" ELSE IF c = "b" THEN "B" ELSE IF c = "f" THEN "F" ELSE c
upper(s) == [i \in DOMAIN s |-> UpperChar(s[i])]

\* ---------------------------------------------------------------- fnmatch
\* fnmatch.translate: the pattern becomes a sequence of regular-expression
\* items.  "star" is ".*"; every other item matches exactly one character:
\* the characters of chars (neg = FALSE) or the characters outside it
\* (neg = TRUE; "." is the complement of the empty set, since the
\* expression is compiled with DOTALL).
Star == [t |-> "star", neg |-> FALSE, chars |-> {}]
Dot == [t |-> "one", neg |-> TRUE, chars |-> {}]
Lit(c) == [t |-> "one", neg |-> FALSE, chars |-> {c}]
Class(stuff) ==
    IF stuff[1] = "!"
    THEN [t |-> "one", neg |-> TRUE, chars |-> Range(SubSeq(stuff, 2, Len(stuff)))]
    ELSE [t |-> "one", neg |-> FALSE, chars |-> Range(stuff)]

\* while j < n and pat[j] != ']': j = j+1   (positions are 1-based here)
RECURSIVE SkipToClose(_, _)
SkipToClose(pat, j) ==
    IF j <= Len(pat) /\ pat[j] # "]" THEN SkipToClose(pat, j + 1) ELSE j

RECURSIVE translate(_, _)
translate(pat, i) ==
    IF i > Len(pat) THEN <<>>
    ELSE IF pat[i] = "*" THEN <<Star>> \o translate(pat, i + 1)
    ELSE IF pat[i] = "?" THEN <<Dot>> \o translate(pat, i + 1)
    ELSE IF pat[i] = "["
    THEN LET j0 == i + 1
             j1 == IF j0 <= Len(pat) /\ pat[j0] = "!" THEN j0 + 1 ELSE j0
             j2 == IF j1 <= Len(pat) /\ pat[j1] = "]" THEN j1 + 1 ELSE j1
             j  == SkipToClose(pat, j2)
         IN  IF j > Len(pat)
             THEN <<Lit("[")>> \o translate(pat, i + 1)
             ELSE <<Class(SubSeq(pat, i + 1, j - 1))>> \o translate(pat, j + 1)
    ELSE <<Lit(pat[i])>> \o translate(pat, i + 1)

ItemMatches(item, c) == IF item.neg THEN c \notin item.chars ELSE c \in item.chars

\* re.match(translate(pat) + '\Z', name): items k.. match name[i..] to its end.
RECURSIVE ReMatch(_, _, _, _)
ReMatch(items, k, name, i) ==
    IF k > Len(items) THEN i > Len(name)
    ELSE IF items[k].t = "star"
    THEN ReMatch(items, k + 1, name, i)
         \/ (i <= Len(name) /\ ReMatch(items, k, name, i + 1))
    ELSE i <= Len(name) /\ ItemMatches(items[k], name[i])
         /\ ReMatch(items, k + 1, name, i + 1)

fnmatchcase(name, pat) == ReMatch(translate(pat, 1), 1, name, 1)

\* ------------------------------------------------------- wildcard_search
\* test_names: the (object, name) pairs; names upper-cased when the
\* comparison is not case sensitive.
test_namesAlwaysUpper(objs, case_sens) ==
    [i \in DOMAIN objs |-> [obj |-> objs[i], name |-> upper(objs[i].name)]]

test_names(objs, case_sens) ==
    [i \in DOMAIN objs |->
        [obj |-> objs[i],
         name |-> IF ~case_sens THEN upper(objs[i].name) ELSE objs[i].name]]

\* "if name and fnmatch...": an object with an empty name is never kept.
RECURSIVE SelectMatchingSkipsEmptyNames(_, _)
SelectMatchingSkipsEmptyNames(pairs, pat) ==
    IF pairs = <<>> THEN <<>>
    ELSE (IF Head(pairs).name # <<>> /\ fnmatchcase(Head(pairs).name, pat)
          THEN <<Head(pairs).obj>> ELSE <<>>)
         \o SelectMatchingSkipsEmptyNames(Tail(pairs), pat)

\* The matches collected last first.
RECURSIVE SelectMatchingReversed(_, _)
SelectMatchingReversed(pairs, pat) ==
    IF pairs = <<>> THEN <<>>
    ELSE SelectMatchingReversed(Tail(pairs), pat)
         \o (IF fnmatchcase(Head(pairs).name, pat) THEN <<Head(pairs).obj>> ELSE <<>>)

RECURSIVE SelectMatching(_, _)
SelectMatching(pairs, pat) ==
    IF pairs = <<>> THEN <<>>
    ELSE (IF fnmatchcase(Head(pairs).name, pat) THEN <<Head(pairs).obj>> ELSE <<>>)
         \o SelectMatching(Tail(pairs), pat)

wildcard_search(objs, pat, case_sens) ==
    SelectMatching(test_names(objs, case_sens), pat)

\* ------------------------------------------------------------ the objects
\* A NamedObject is {id, name}; ids are unique, names are not (o1 and o5
\* share a name), a name may be empty or hold wildcard characters.
None == <<>>
Some(x) == <<x>>

o1 == [id |-> <<"1">>, name |-> <<"a">>]
o2 == [id |-> <<"2">>, name |-> <<"A">>]
o3 == [id |-> <<"3">>, name |-> <<"a", "*">>]
o4 == [id |-> <<"4">>, name |-> <<>>]
o5 == [id |-> <<"5">>, name |-> <<"a">>]
NamedObjects == {o1, o2, o3, o4, o5}
ObjectLists == SeqsUpTo(NamedObjects, MaxObjs)
Patterns == SeqsUpTo(PatChars, MaxPatLen)

\* The objects a server holds: named, in the server's listing order, no
\* object twice.
ServerObjects == {o1, o2, o3, o5}
NoRepeat(s) == \A i, j \in DOMAIN s : i # j => s[i] # s[j]
ServerLists == {s \in SeqsUpTo(ServerObjects, MaxObjs) : NoRepeat(s)}

SearchChars == {"a", "A", "*", "?", "[", "]", "1"}
Digits == {"1", "2", "3", "4", "5"}
SearchTerms == {None} \cup {Some(s) : s \in SeqsUpTo(SearchChars, MaxSearchLen)}

\* --------------------------------------------- containers and references
\* A container (a policy, a profile, an imaging configuration) is a
\* NamedObject with child elements; an element sits at a path and may have
\* an id text and a name text (findtext gives None for a missing one).
PolicyPkgPath == "package_configuration/packages/package"
ImagingPkgPath == "packages/package"
Paths == {PolicyPkgPath, ImagingPkgPath}

\* The packages searched for, and the references an element can be: the id
\* of o1 with the name of o2, the name of o1 without an id, and a reference
\* to an object that is none of the targets.
Targets == {o1, o2}
References ==
    { [id |-> Some(o1.id), name |-> Some(o2.name)],
      [id |-> None, name |-> Some(o1.name)],
      [id |-> Some(<<"9">>), name |-> None] }
Elements == {[path |-> p, id |-> r.id, name |-> r.name] : p \in Paths, r \in References}

DigitChars == <<"1", "2", "3", "4", "5", "6", "7", "8", "9">>
Container(i, elems) ==
    [id |-> <<DigitChars[i]>>, name |-> <<"p", DigitChars[i]>>, elements |-> elems]

\* The element lists of up to k containers holding up to m elements
\* between them.
RECURSIVE BodyLists(_, _)
BodyLists(k, m) ==
    IF k = 0 THEN {<<>>}
    ELSE {<<>>} \cup
         UNION { {<<b>> \o rest : rest \in BodyLists(k - 1, m - Len(b))} :
                   b \in SeqsUpTo(Elements, m) }

\* Up to MaxContainers containers with unique ids, holding up to MaxElems
\* elements between them.
ContainerLists ==
    { [i \in DOMAIN bodies |-> Container(i, bodies[i])] :
        bodies \in BodyLists(MaxContainers, MaxElems) }

\* search_objects is one JSSObject or a list of them.
TargetArgs ==
    {[kind |-> "object", val |-> t] : t \in Targets}
    \cup {[kind |-> "list", val |-> l] : l \in SeqsUpTo(Targets, MaxTargets)}

VARIABLES
    \* wildcard_search called on its own
    objects, pattern, case_sensitive, wResults, wPc,
    \* search_for_object
    server,            \* the objects of one kind on the server, in listing order
    search,            \* the search argument: None or Some(string)
    rPc,               \* "call", "refetch", "done" or "raised"
    listing,           \* what obj_method() returned: None or Some(list)
    wildcard_results,  \* the matches of the wildcard search
    rIdx,              \* the match the re-fetch loop is at
    results,           \* the results list
    fetchAllCalls,     \* how many times obj_method() was called
    fetchLog,          \* the calls obj_method(key): key and outcome, in order
    \* find_objects_in_containers and the "installs" action
    search_objects,    \* the targets: one object or a list
    search_path,       \* the path of the references to look at
    containers,        \* the containers, in the order given
    sResults,          \* the result of the scan
    sResults2,         \* the result of scanning the same arguments again
    sPc,               \* "call", "scanned", "rescanned" or "reported"
    policyReport,      \* "installs": the policies reported, as a bag of lines
    imagingReport,     \* "installs": the imaging configurations reported
    \* get_scoped_to_all
    scope_containers,  \* the argument: one container or a list
    scope_results,     \* the list returned
    scopePc,           \* "call" or "done"
    \* get_package_info
    package_name,      \* the argument
    info,              \* the pair returned: basename and version
    info2,             \* the pair returned by the same call made again
    parsePc,           \* "call", "parsed" or "reparsed"
    \* get_newest_pkg
    options,           \* the argument: a list of package names
    newest,            \* the name returned: None or Some(name)
    newestPc,          \* "call" or "done"
    \* get_updatable_policies
    policy_list,       \* the policies: name and names of the packages installed
    package_list,      \* the names of the packages of the server, in order
    multiples,         \* what _build_package_version_dict returned
    updates_available_names,   \* the list returned
    updPc,             \* "call" or "done"
    \* update_name
    policy_name,       \* the text of the policy's general/name element
    name_before,       \* that text when update_name was called
    cur_pkg_name,      \* the name of the current package
    new_pkg_name,      \* the name of the new package
    renamePc,          \* "call", "returned" or "raised"
    \* promote
    args,              \* new_package and update_name
    promotePolicy,     \* the policy object: its name and its package names
    cur_pkg,           \* the name of the first package of the policy
    promotePc,         \* "start", "removed", "added", "named", "saved", "aborted"
    promoteLog,        \* what the run has done so far, in order
    saved,             \* the policies sent to the server by save(), in order
    \* build_results_string
    heading,           \* None or Some(string)
    report_results,    \* the results argument: nothing, a list or one object
    output_string,     \* the string returned
    reportPc,          \* "call" or "done"
    \* one run of a command line action
    command,           \* the action: "search", "group", "scoped", "excluded",
                       \* "installs", "batch_scope" or "promote"
    cliArgs,           \* search, group, policy, add, remove and dry_run
    cliPc,             \* where the run is
    cliLog,            \* what the run has printed and done, in order
    exit_status,       \* None while the run goes on, then Some(status)
    group,             \* group modify: None or Some(the group in memory)
    groups,            \* batch_scope: the groups found
    queryIdx,          \* batch_scope: the policy query the loop is at
    matched,           \* batch_scope: the policies of the query still to do
    \* prompt_user
    options_arg,       \* the options argument
    expandable_arg,    \* the expandable argument: None (False) or Some(list)
    default_of,        \* flags: None, or Some(the options DEFAULT holds for)
    prompt_options,    \* the local variable options
    prompt_expandable, \* the local variable expandable
    choices,           \* what the user has entered so far, in order
    result,            \* the local variable result: None or Some(option)
    promptPc,          \* "call", "ask" or "returned"
    \* JSSConnection
    jss_obj,           \* the class variable _jss: None or Some(JSS object)
    jss_prefs,         \* the class variable _jss_prefs
    constructed,       \* how many JSS objects have been constructed
    setups,            \* how many times setup() has been called by a client
    returned,          \* what the calls of get() have returned, in order
    \* log_warning
    warn_policy,       \* the policy: its frequency and the text of its triggers
    warn_log,          \* what log_warning has printed and opened, in order
    warnPc             \* "call" or "done"

matchVars == <<objects, pattern, case_sensitive, wResults, wPc>>
resolveVars == <<server, search, rPc, listing, wildcard_results, rIdx, results,
                 fetchAllCalls, fetchLog>>
scanVars == <<search_objects, search_path, containers, sResults, sResults2, sPc,
              policyReport, imagingReport>>
scopeVars == <<scope_containers, scope_results, scopePc>>
parseVars == <<package_name, info, info2, parsePc>>
newestVars == <<options, newest, newestPc>>
updVars == <<policy_list, package_list, multiples, updates_available_names, updPc>>
renameVars == <<policy_name, name_before, cur_pkg_name, new_pkg_name, renamePc>>
promoteVars == <<args, promotePolicy, cur_pkg, promotePc, promoteLog, saved>>
reportVars == <<heading, report_results, output_string, reportPc>>
toolVars ==
    <<scopeVars, parseVars, newestVars, updVars, renameVars, promoteVars, reportVars>>
searchVars == <<matchVars, resolveVars, scanVars>>
cliVars == <<command, cliArgs, cliPc, cliLog, exit_status, group, groups,
             queryIdx, matched>>
promptVars == <<options_arg, expandable_arg, default_of, prompt_options,
                prompt_expandable, choices, result, promptPc>>
connVars == <<jss_obj, jss_prefs, constructed, setups, returned>>
warnVars == <<warn_policy, warn_log, warnPc>>
menuVars == <<promptVars, connVars, warnVars>>
runVars == <<cliVars, menuVars>>
vars == <<matchVars, resolveVars, scanVars, toolVars, runVars>>

\* ---------------------------------------------- wildcard_search, on its own
MatchIdle ==
    /\ objects = <<>> /\ pattern = <<>> /\ case_sensitive = TRUE
    /\ wResults = <<>> /\ wPc = "off"

InitMatchVars ==
    /\ objects \in ObjectLists
    /\ pattern \in Patterns
    /\ case_sensitive \in BOOLEAN
    /\ wResults = <<>>
    /\ wPc = "call"

WildcardSearch ==
    /\ wPc = "call"
    /\ wResults' = wildcard_search(objects, pattern, case_sensitive)
    /\ wPc' = "done"
    /\ UNCHANGED <<objects, pattern, case_sensitive>>
    /\ UNCHANGED <<resolveVars, scanVars, toolVars, runVars>>

\* ------------------------------------------------------- search_for_object
\* if search: (None and "" are both false)
Truthy(arg) == arg # None /\ arg[1] # <<>>

\* for wildcard in WILDCARDS: if wildcard in search: search_is_wildcard = True
search_is_wildcard(arg) ==
    Truthy(arg) /\ \E w \in DOMAIN WILDCARDS : WILDCARDS[w] \in Range(arg[1])

\* obj_method(key): the objects the server may answer with.  A key of digits
\* is an id, any other key a name; several objects may share a name.
IsId(key) == key # <<>> /\ Range(key) \subseteq Digits
Lookup(srv, key) ==
    {o \in Range(srv) : IF IsId(key) THEN o.id = key ELSE o.name = key}

ResolveIdle ==
    /\ server = <<>> /\ search = None /\ rPc = "off" /\ listing = None
    /\ wildcard_results = <<>> /\ rIdx = 0 /\ results = <<>>
    /\ fetchAllCalls = 0 /\ fetchLog = <<>>

InitResolveVars ==
    /\ server \in ServerLists
    /\ search \in SearchTerms
    /\ rPc = "call"
    /\ listing = None
    /\ wildcard_results = <<>>
    /\ rIdx = 0
    /\ results = <<>>
    /\ fetchAllCalls = 0
    /\ fetchLog = <<>>

\* tools.py:111-112: obj_method() is called outside any try: a get error
\* leaves search_for_object; otherwise the matches are computed.
CallWildcard ==
    /\ rPc = "call" /\ search_is_wildcard(search)
    /\ fetchAllCalls' = fetchAllCalls + 1
    /\ \E ok \in BOOLEAN :
        IF ok
        THEN /\ listing' = Some(server)
             /\ wildcard_results' = wildcard_search(server, search[1], TRUE)
             /\ rIdx' = 1
             /\ rPc' = IF wildcard_results' = <<>> THEN "done" ELSE "refetch"
        ELSE /\ rPc' = "raised"
             /\ UNCHANGED <<listing, wildcard_results, rIdx>>
    /\ UNCHANGED <<server, search, results, fetchLog>>
    /\ UNCHANGED <<matchVars, scanVars, toolVars, runVars>>

\* tools.py:113-117: one turn of the loop over the matches.  A get error is
\* caught and the loop goes on with the next match.
RefetchResult(res, outcome) ==
    IF outcome = None THEN res ELSE Append(res, outcome[1])

\* Without the try: the get error of a re-fetch leaves search_for_object.
AfterRefetchRaises(outcome, idx, n) ==
    IF outcome = None THEN "raised" ELSE IF idx = n THEN "done" ELSE "refetch"

AfterRefetch(outcome, idx, n) == IF idx = n THEN "done" ELSE "refetch"

Refetch ==
    /\ rPc = "refetch"
    /\ LET key == wildcard_results[rIdx].name
       IN  \E outcome \in {None} \cup {Some(o) : o \in Lookup(server, key)} :
             /\ results' = RefetchResult(results, outcome)
             /\ fetchLog' = Append(fetchLog, [key |-> key, got |-> outcome])
             /\ rPc' = AfterRefetch(outcome, rIdx, Len(wildcard_results))
    /\ rIdx' = rIdx + 1
    /\ UNCHANGED <<server, search, listing, wildcard_results, fetchAllCalls>>
    /\ UNCHANGED <<matchVars, scanVars, toolVars, runVars>>

\* No except clause value: the failed lookup leaves an entry in the list.
ExactResultKeepsError(outcome) ==
    IF outcome = None THEN <<None>> ELSE <<outcome[1]>>

\* tools.py:119-123
ExactResult(outcome) == IF outcome = None THEN <<>> ELSE <<outcome[1]>>

CallExact ==
    /\ rPc = "call" /\ Truthy(search) /\ ~search_is_wildcard(search)
    /\ \E outcome \in {None} \cup {Some(o) : o \in Lookup(server, search[1])} :
         /\ results' = ExactResult(outcome)
         /\ fetchLog' = Append(fetchLog, [key |-> search[1], got |-> outcome])
    /\ rPc' = "done"
    /\ UNCHANGED <<server, search, listing, wildcard_results, rIdx, fetchAllCalls>>
    /\ UNCHANGED <<matchVars, scanVars, toolVars, runVars>>

\* Only the first object of the listing is returned.
AllResultFirstOnly(got) ==
    IF got = None \/ got[1] = <<>> THEN <<>> ELSE <<Head(got[1])>>

\* tools.py:124-128
AllResult(got) == IF got = None THEN <<>> ELSE got[1]

CallAll ==
    /\ rPc = "call" /\ ~Truthy(search)
    /\ fetchAllCalls' = fetchAllCalls + 1
    /\ \E ok \in BOOLEAN :
         /\ listing' = IF ok THEN Some(server) ELSE None
         /\ results' = AllResult(listing')
    /\ rPc' = "done"
    /\ UNCHANGED <<server, search, wildcard_results, rIdx, fetchLog>>
    /\ UNCHANGED <<matchVars, scanVars, toolVars, runVars>>

\* Another client deletes an object while the matches are re-fetched.
ServerDelete ==
    /\ rPc = "refetch"
    /\ \E i \in DOMAIN server :
         server' = SubSeq(server, 1, i - 1) \o SubSeq(server, i + 1, Len(server))
    /\ UNCHANGED <<search, rPc, listing, wildcard_results, rIdx, results,
                   fetchAllCalls, fetchLog>>
    /\ UNCHANGED <<matchVars, scanVars, toolVars, runVars>>

\* --------------------------------------------- find_objects_in_containers
\* obj.findall(search_path): the elements at the path, in document order.
findall(obj, path) == SelectSeq(obj.elements, LAMBDA el : el.path = path)

InSeq(x, s) == \E i \in DOMAIN s : s[i] = x

\* "and" for "or": a reference must carry a target's id and a target's name.
ElementMatchesBoth(element, search_ids, search_names) ==
    InSeq(element.id, search_ids) /\ InSeq(element.name, search_names)

\* tools.py:198-199
ElementMatches(element, search_ids, search_names) ==
    InSeq(element.id, search_ids) \/ InSeq(element.name, search_names)

\* tools.py:197-200: obj is appended once for every element that matches.
RECURSIVE ScanElements(_, _, _, _)
ScanElements(obj, elems, search_ids, search_names) ==
    IF elems = <<>> THEN <<>>
    ELSE (IF ElementMatches(Head(elems), search_ids, search_names)
          THEN <<obj>> ELSE <<>>)
         \o ScanElements(obj, Tail(elems), search_ids, search_names)

\* The containers walked last first.
RECURSIVE ScanContainersReversed(_, _, _, _)
ScanContainersReversed(full_objects, path, search_ids, search_names) ==
    IF full_objects = <<>> THEN <<>>
    ELSE ScanContainersReversed(Tail(full_objects), path, search_ids, search_names)
         \o ScanElements(Head(full_objects), findall(Head(full_objects), path),
                         search_ids, search_names)

\* tools.py:196-200: the loop over the containers.
RECURSIVE ScanContainers(_, _, _, _)
ScanContainers(full_objects, path, search_ids, search_names) ==
    IF full_objects = <<>> THEN <<>>
    ELSE ScanElements(Head(full_objects), findall(Head(full_objects), path),
                      search_ids, search_names)
         \o ScanContainers(Tail(full_objects), path, search_ids, search_names)

\* tools.py:192-193: a single JSSObject becomes a one-element list.
AsList(arg) == IF arg.kind = "object" THEN <<arg.val>> ELSE arg.val

find_objects_in_containers(arg, path, conts) ==
    LET objs == AsList(arg)
        search_ids == [i \in DOMAIN objs |-> Some(objs[i].id)]
        search_names == [i \in DOMAIN objs |-> Some(objs[i].name)]
    IN  ScanContainers(conts, path, search_ids, search_names)

RECURSIVE SeqToBag(_)
SeqToBag(s) ==
    IF s = <<>> THEN EmptyBag ELSE SetToBag({Head(s)}) (+) SeqToBag(Tail(s))

\* The list handed on as it is, without set().
setKeepsDuplicates(s) == SeqToBag(s)

\* Python's set(list), as the bag that holds each element of the list once:
\* build_results_string writes one line for each element it iterates over.
set(s) == SetToBag(Range(s))

ScanIdle ==
    /\ search_objects = [kind |-> "list", val |-> <<>>]
    /\ search_path = PolicyPkgPath /\ containers = <<>>
    /\ sResults = <<>> /\ sResults2 = <<>> /\ sPc = "off"
    /\ policyReport = EmptyBag /\ imagingReport = EmptyBag

InitScanVars ==
    /\ search_objects \in TargetArgs
    /\ search_path \in Paths
    /\ containers \in ContainerLists
    /\ sResults = <<>>
    /\ sResults2 = <<>>
    /\ sPc = "call"
    /\ policyReport = EmptyBag
    /\ imagingReport = EmptyBag

FindObjects ==
    /\ sPc = "call"
    /\ sResults' = find_objects_in_containers(search_objects, search_path, containers)
    /\ sPc' = "scanned"
    /\ UNCHANGED <<search_objects, search_path, containers, sResults2,
                   policyReport, imagingReport>>
    /\ UNCHANGED <<matchVars, resolveVars, toolVars, runVars>>

\* The same call made again with the same arguments.
FindObjectsAgain ==
    /\ sPc = "scanned"
    /\ sResults2' = find_objects_in_containers(search_objects, search_path, containers)
    /\ sPc' = "rescanned"
    /\ UNCHANGED <<search_objects, search_path, containers, sResults,
                   policyReport, imagingReport>>
    /\ UNCHANGED <<matchVars, resolveVars, toolVars, runVars>>

\* actions.py:619-641.  packages is what search_for_object returned, a list;
\* of the containers on the server the first n are the policies and the
\* others the imaging configurations.
get_package_policies ==
    /\ sPc = "call"
    /\ search_objects.kind = "list"
    /\ \E n \in 0..Len(containers) :
         LET packages == search_objects
             policies == SubSeq(containers, 1, n)
             imaging_configs == SubSeq(containers, n + 1, Len(containers))
         IN  /\ policyReport' =
                   set(find_objects_in_containers(packages, PolicyPkgPath, policies))
             /\ imagingReport' =
                   set(find_objects_in_containers(packages, ImagingPkgPath,
                                                  imaging_configs))
    /\ sPc' = "reported"
    /\ UNCHANGED <<search_objects, search_path, containers, sResults, sResults2>>
    /\ UNCHANGED <<matchVars, resolveVars, toolVars, runVars>>

\* ------------------------------------------------------ get_scoped_to_all
\* A container is an object of one of the classes below (ComputerGroup
\* stands for every class that get_scoped_to_all does not test for) with the
\* text of its scope/all_computers and scope/all_mobile_devices elements;
\* None is what findtext returns for an element that is not there.
ScopeKinds ==
    {"Policy", "OSXConfigurationProfile", "MobileDeviceConfigurationProfile",
     "ComputerGroup"}
ComputerFlags == {None, Some("true"), Some("false"), Some("True")}
MobileFlags == {None, Some("true"), Some("false")}
ScopedContainers ==
    {[kind |-> k, all_computers |-> c, all_mobile_devices |-> m] :
        k \in ScopeKinds, c \in ComputerFlags, m \in MobileFlags}
ScopeArgs ==
    {[kind |-> "object", val |-> c] : c \in ScopedContainers}
    \cup {[kind |-> "list", val |-> l] : l \in SeqsUpTo(ScopedContainers, MaxScoped)}

findtext(container, path) ==
    CASE path = "scope/all_computers" -> container.all_computers
      [] path = "scope/all_mobile_devices" -> container.all_mobile_devices

\* The mobile-device branch reading the flag of the computer branch.
IsScopedToAllOneFlag(container) ==
    /\ container.kind \in {"Policy", "OSXConfigurationProfile",
                           "MobileDeviceConfigurationProfile"}
    /\ findtext(container, "scope/all_computers") = Some("true")

\* tools.py:241-246, the body of the loop: whether the container is appended.
IsScopedToAll(container) ==
    IF container.kind \in {"Policy", "OSXConfigurationProfile"}
    THEN findtext(container, "scope/all_computers") = Some("true")
    ELSE IF container.kind = "MobileDeviceConfigurationProfile"
         THEN findtext(container, "scope/all_mobile_devices") = Some("true")
         ELSE FALSE

RECURSIVE ScopedLoop(_)
ScopedLoop(conts) ==
    IF conts = <<>> THEN <<>>
    ELSE LET container == Head(conts)
             rest == ScopedLoop(Tail(conts))
         IN  IF IsScopedToAll(container) THEN <<container>> \o rest ELSE rest

get_scoped_to_all(arg) == ScopedLoop(AsList(arg))

ScopeIdle ==
    /\ scope_containers = [kind |-> "list", val |-> <<>>]
    /\ scope_results = <<>> /\ scopePc = "off"

InitScopeVars ==
    /\ scope_containers \in ScopeArgs
    /\ scope_results = <<>>
    /\ scopePc = "call"

GetScopedToAll ==
    /\ scopePc = "call"
    /\ scope_results' = get_scoped_to_all(scope_containers)
    /\ scopePc' = "done"
    /\ UNCHANGED scope_containers
    /\ UNCHANGED <<searchVars, runVars, parseVars, newestVars, updVars,
                 renameVars, promoteVars, reportVars>>

\* -------------------------------------------------------- get_package_info
\* The character classes of the expression, as re gives them to a str
\* pattern without flags: \d, \w and \s.
DecimalDigits == {"0", "1", "2", "3", "4", "5", "6", "7", "8", "9"}
LowerLetters == {"a", "b", "d", "g", "i", "k", "m", "p", "z"}
UpperLetters == {"A", "B"}
WordChars == DecimalDigits \cup LowerLetters \cup UpperLetters \cup {"_"}
SpaceChars == {" ", "\n"}
BasenameChars == WordChars \cup SpaceChars \cup {"-"}    \* [\w\s\-]
SeparatorChars == SpaceChars \cup {"-", "_"}             \* [\s\-_]
VersionChars == WordChars \cup {".", "-"}                \* [\w.\-]

DotPkg == <<".", "p", "k", "g">>
DotZip == <<".", "z", "i", "p">>
DotDmg == <<".", "d", "m", "g">>
NewLine == <<"\n">>

\* The literal lit at position i of s.
LiteralAt(s, i, lit) ==
    /\ i + Len(lit) - 1 <= Len(s)
    /\ SubSeq(s, i, i + Len(lit) - 1) = lit

\* "$" without re.MULTILINE: the end of the string, or the place before a
\* newline that is the last character of the string.
AtEnd(s, i) == i = Len(s) + 1 \/ (i = Len(s) /\ s[i] = "\n")

\* (?P<extension>\.(pkg(\.zip)?|dmg))$ at position e.
ExtensionAt(s, e) ==
    \/ LiteralAt(s, e, DotPkg) /\ LiteralAt(s, e + 4, DotZip) /\ AtEnd(s, e + 8)
    \/ LiteralAt(s, e, DotPkg) /\ AtEnd(s, e + 4)
    \/ LiteralAt(s, e, DotDmg) /\ AtEnd(s, e + 4)

\* The position after the longest run of characters of a class from i on.
RECURSIVE RunEnd(_, _, _)
RunEnd(s, i, class) ==
    IF i <= Len(s) /\ s[i] \in class THEN RunEnd(s, i + 1, class) ELSE i

\* [\d]+[\w.\-]* from v, greedy, given back one character at a time until
\* the extension follows: the position where the extension starts, 0 for
\* no match.
RECURSIVE TryExtension(_, _, _)
TryExtension(s, v, e) ==
    IF e <= v THEN 0
    ELSE IF ExtensionAt(s, e) THEN e
    ELSE TryExtension(s, v, e - 1)

VersionFrom(s, v) ==
    IF v <= Len(s) /\ s[v] \in DecimalDigits
    THEN TryExtension(s, v, RunEnd(s, v, VersionChars))
    ELSE 0

\* (?P<basename>[\w\s\-]+) ending at b, greedy, given back one character at
\* a time until a separator, a version and an extension follow.
RECURSIVE TryBasename(_, _)
TryBasename(s, b) ==
    IF b < 1 THEN [basename |-> None, version |-> None]
    ELSE LET e == IF b + 1 <= Len(s) /\ s[b + 1] \in SeparatorChars
                  THEN VersionFrom(s, b + 2)
                  ELSE 0
         IN  IF e > 0
             THEN [basename |-> Some(SubSeq(s, 1, b)),
                   version |-> Some(SubSeq(s, b + 2, e - 1))]
             ELSE TryBasename(s, b - 1)

\* "$" taken as the end of the string only.
get_package_infoStrictEnd(name) ==
    IF name # <<>> /\ name[Len(name)] = "\n"
    THEN [basename |-> None, version |-> None]
    ELSE TryBasename(name, RunEnd(name, 1, BasenameChars) - 1)

\* re.search with "^": the match starts at the first character.
get_package_info(name) == TryBasename(name, RunEnd(name, 1, BasenameChars) - 1)

\* The package names: a stem and an ending.
StemChars == {"a", "1", ".", "-", "_", " ", "+"}
Stems ==
    SeqsUpTo(StemChars, MaxStemLen)
    \cup {<<"1", "-", "1", "-", "1">>, <<"a", " ", "1", "_", "1">>,
          <<"a", "-", "1", ".", "1">>}
Endings ==
    {<<>>, DotPkg, DotPkg \o DotZip, DotDmg, DotZip, DotPkg \o DotPkg,
     DotPkg \o NewLine, DotDmg \o NewLine}
PackageNames == {stem \o ending : stem \in Stems, ending \in Endings}

ParseIdle ==
    /\ package_name = <<>> /\ parsePc = "off"
    /\ info = [basename |-> None, version |-> None]
    /\ info2 = [basename |-> None, version |-> None]

InitParseVars ==
    /\ package_name \in PackageNames
    /\ parsePc = "call"
    /\ info = [basename |-> None, version |-> None]
    /\ info2 = [basename |-> None, version |-> None]

GetPackageInfo ==
    /\ parsePc = "call"
    /\ info' = get_package_info(package_name)
    /\ parsePc' = "parsed"
    /\ UNCHANGED <<package_name, info2>>
    /\ UNCHANGED <<searchVars, runVars, scopeVars, newestVars, updVars,
                 renameVars, promoteVars, reportVars>>

\* The same call made again with the same argument.
GetPackageInfoAgain ==
    /\ parsePc = "parsed"
    /\ info2' = get_package_info(package_name)
    /\ parsePc' = "reparsed"
    /\ UNCHANGED <<package_name, info>>
    /\ UNCHANGED <<searchVars, runVars, scopeVars, newestVars, updVars,
                 renameVars, promoteVars, reportVars>>

\* ------------------------------------------- distutils.version.LooseVersion
\* The characters a version can hold, in the order of their codes.
CodeOrder ==
    <<"-", ".", "0", "1", "2", "3", "4", "5", "6", "7", "8", "9", "A", "B",
      "_", "a", "b", "d", "g", "i", "k", "m", "p", "z">>
Ord(c) == CHOOSE i \in DOMAIN CodeOrder : CodeOrder[i] = c

\* int(): the number a run of digits stands for.
RECURSIVE IntOf(_)
IntOf(run) ==
    IF run = <<>> THEN 0
    ELSE 10 * IntOf(SubSeq(run, 1, Len(run) - 1)) + (Ord(run[Len(run)]) - Ord("0"))

IntComponent(run) == [int |-> TRUE, n |-> IntOf(run), s |-> <<>>]
StrComponent(run) == [int |-> FALSE, n |-> 0, s |-> run]

\* LooseVersion.parse: component_re = (\d+ | [a-z]+ | \.) splits the string;
\* the digit runs become ints, the dots and the empty pieces are dropped,
\* the lower-case runs and the pieces between the matches stay strings.
RECURSIVE Components(_, _)
Components(v, i) ==
    IF i > Len(v) THEN <<>>
    ELSE IF v[i] \in DecimalDigits
         THEN LET j == RunEnd(v, i, DecimalDigits)
              IN  <<IntComponent(SubSeq(v, i, j - 1))>> \o Components(v, j)
    ELSE IF v[i] \in LowerLetters
         THEN LET j == RunEnd(v, i, LowerLetters)
              IN  <<StrComponent(SubSeq(v, i, j - 1))>> \o Components(v, j)
    ELSE IF v[i] = "." THEN Components(v, i + 1)
    ELSE LET others == (Range(CodeOrder) \ DecimalDigits) \ (LowerLetters \cup {"."})
             j == RunEnd(v, i, others)
         IN  <<StrComponent(SubSeq(v, i, j - 1))>> \o Components(v, j)

\* cmp of two strings, of two components (an int is less than a string) and
\* of two lists of components: "lt", "eq" or "gt".
RECURSIVE CmpStr(_, _)
CmpStr(a, b) ==
    IF a = <<>> THEN (IF b = <<>> THEN "eq" ELSE "lt")
    ELSE IF b = <<>> THEN "gt"
    ELSE IF Ord(Head(a)) < Ord(Head(b)) THEN "lt"
    ELSE IF Ord(Head(a)) > Ord(Head(b)) THEN "gt"
    ELSE CmpStr(Tail(a), Tail(b))

CmpComponent(x, y) ==
    IF x.int /\ y.int
    THEN (IF x.n < y.n THEN "lt" ELSE IF x.n > y.n THEN "gt" ELSE "eq")
    ELSE IF x.int THEN "lt"
    ELSE IF y.int THEN "gt"
    ELSE CmpStr(x.s, y.s)

RECURSIVE CmpList(_, _)
CmpList(a, b) ==
    IF a = <<>> THEN (IF b = <<>> THEN "eq" ELSE "lt")
    ELSE IF b = <<>> THEN "gt"
    ELSE IF CmpComponent(Head(a), Head(b)) # "eq" THEN CmpComponent(Head(a), Head(b))
    ELSE CmpList(Tail(a), Tail(b))

\* LooseVersion.__cmp__
LooseCmp(v, w) == CmpList(Components(v, 1), Components(w, 1))

\* ----------------------------------------------------------- get_newest_pkg
\* A dict: a function from its keys.
EmptyDict == [k \in {} |-> <<>>]
DictPut(d, k, val) == [x \in DOMAIN d \cup {k} |-> IF x = k THEN val ELSE d[x]]

\* The comprehension keeping the first package of a version.
RECURSIVE versionsKeepFirst(_)
versionsKeepFirst(opts) ==
    IF opts = <<>> THEN EmptyDict
    ELSE LET package == opts[Len(opts)]
             d == versionsKeepFirst(SubSeq(opts, 1, Len(opts) - 1))
             version == get_package_info(package).version
         IN  IF version # None /\ version[1] \notin DOMAIN d
             THEN DictPut(d, version[1], package) ELSE d

\* tools.py:442-443: {get_package_info(package)[1]: package for package in
\* options if get_package_info(package)[1]}, a later package taking the
\* place of an earlier one under the same key.
RECURSIVE versions(_)
versions(opts) ==
    IF opts = <<>> THEN EmptyDict
    ELSE LET package == opts[Len(opts)]
             d == versions(SubSeq(opts, 1, Len(opts) - 1))
             version == get_package_info(package).version
         IN  IF version # None THEN DictPut(d, version[1], package) ELSE d

\* The keys compared as the strings they are.
MaxKeysAsStrings(d) ==
    {k \in DOMAIN d : \A j \in DOMAIN d : CmpStr(k, j) # "lt"}

\* max([LooseVersion(version) for version in versions]): max gives the
\* first of the greatest elements, and the order in which a dict gives its
\* keys is not defined, so any key that no key is greater than can be it.
MaxKeys(d) ==
    {k \in DOMAIN d : \A j \in DOMAIN d : LooseCmp(k, j) # "lt"}

\* The package names of the server.
Name(stem, ending) == stem \o ending
PkgA1 == Name(<<"a", "-", "1">>, DotPkg)
PkgB1 == Name(<<"b", "-", "1">>, DotPkg)
DmgA1 == Name(<<"a", "-", "1">>, DotDmg)
PkgA2 == Name(<<"a", "-", "2">>, DotPkg)
PkgA10 == Name(<<"a", "-", "1", "0">>, DotPkg)
PkgA01 == Name(<<"a", "-", "0", "1">>, DotPkg)
PkgA1a == Name(<<"a", "-", "1", "a">>, DotPkg)
PkgA == Name(<<"a">>, DotPkg)
PkgBA2 == Name(<<"b", "a", "-", "2">>, DotPkg)
NewestPool == {PkgA1, PkgB1, DmgA1, PkgA2, PkgA10, PkgA01, PkgA1a, PkgA}
OptionLists == SeqsUpTo(NewestPool, MaxOptions)

NewestIdle == options = <<>> /\ newest = None /\ newestPc = "off"

InitNewestVars ==
    /\ options \in OptionLists
    /\ newest = None
    /\ newestPc = "call"

get_newest_pkg ==
    /\ newestPc = "call"
    /\ LET d == versions(options)
       IN  IF DOMAIN d # {}
           THEN \E k \in MaxKeys(d) : newest' = Some(d[k])
           ELSE newest' = None
    /\ newestPc' = "done"
    /\ UNCHANGED options
    /\ UNCHANGED <<searchVars, runVars, scopeVars, parseVars, updVars,
                 renameVars, promoteVars, reportVars>>

\* ---------------------- _build_package_version_dict, get_updatable_policies
\* get_package_info of the package names of the server, computed once for
\* each name; of any other name, computed on the spot.
InfoTable == [name \in NewestPool \cup {PkgBA2} |-> get_package_info(name)]
package_info(name) ==
    IF name \in DOMAIN InfoTable THEN InfoTable[name] ELSE get_package_info(name)

\* tools.py:463-473: the versions of each basename, in the order of the list.
RECURSIVE package_version_dict(_)
package_version_dict(names) ==
    IF names = <<>> THEN EmptyDict
    ELSE LET package == names[Len(names)]
             d == package_version_dict(SubSeq(names, 1, Len(names) - 1))
             parsed == package_info(package)
         IN  IF parsed.basename # None /\ parsed.basename[1] # <<>>
             THEN IF parsed.basename[1] \notin DOMAIN d
                  THEN DictPut(d, parsed.basename[1], <<parsed.version[1]>>)
                  ELSE DictPut(d, parsed.basename[1],
                               Append(d[parsed.basename[1]], parsed.version[1]))
             ELSE d

\* The narrowing left out.
NarrowKeepsSingles(d) == d

\* tools.py:477-479: only the products with more than one package.
Narrow(d) == [k \in {x \in DOMAIN d : Len(d[x]) > 1} |-> d[k]]

build_package_version_dict(names) == Narrow(package_version_dict(names))

\* max() of a list of LooseVersions: the first of the greatest.
MaxVersion(vs) ==
    vs[CHOOSE i \in DOMAIN vs :
          /\ \A j \in DOMAIN vs : LooseCmp(vs[i], vs[j]) # "lt"
          /\ \A j \in 1..(i - 1) : LooseCmp(vs[j], vs[i]) = "lt"]

\* tools.py:396-398, for one installed package.
NewerAvailable(package, mult) ==
    LET parsed == package_info(package)
    IN  /\ parsed.basename # None
        /\ parsed.basename[1] \in DOMAIN mult
        /\ LooseCmp(parsed.version[1], MaxVersion(mult[parsed.basename[1]])) = "lt"

\* The loop over the installed packages without its break: the policy once
\* for each package that has a newer version.
RECURSIVE InstalledLoopNoBreak(_, _, _)
InstalledLoopNoBreak(policy, installed, mult) ==
    IF installed = <<>> THEN <<>>
    ELSE (IF NewerAvailable(Head(installed), mult) THEN <<policy>> ELSE <<>>)
         \o InstalledLoopNoBreak(policy, Tail(installed), mult)

\* tools.py:395-400: the loop over the installed packages; what it appends.
RECURSIVE InstalledLoop(_, _, _)
InstalledLoop(policy, installed, mult) ==
    IF installed = <<>> THEN <<>>
    ELSE IF NewerAvailable(Head(installed), mult) THEN <<policy>>
    ELSE InstalledLoop(policy, Tail(installed), mult)

\* tools.py:392-400: the loop over the policies.
RECURSIVE PolicyLoop(_, _)
PolicyLoop(pols, mult) ==
    IF pols = <<>> THEN <<>>
    ELSE InstalledLoop(Head(pols), Head(pols).packages, mult)
         \o PolicyLoop(Tail(pols), mult)

\* tools.py:403-404: the names of the policies kept.
NamesOf(pols) == [i \in DOMAIN pols |-> pols[i].name]

\* The policies: a name of their own each, and the names of the packages
\* they install.
Policy(i, installed) == [name |-> <<"p", DigitChars[i]>>, packages |-> installed]
InstalledPool == {PkgA1, PkgA2, PkgA}
RECURSIVE InstalledLists(_, _)
InstalledLists(k, m) ==
    IF k = 0 THEN {<<>>}
    ELSE {<<>>} \cup
         UNION { {<<b>> \o rest : rest \in InstalledLists(k - 1, m - Len(b))} :
                   b \in SeqsUpTo(InstalledPool, m) }
PolicyLists ==
    { [i \in DOMAIN bodies |-> Policy(i, bodies[i])] :
        bodies \in InstalledLists(MaxPolicies, MaxInstalled) }
PackagePool == {PkgA1, PkgA2, PkgA10, PkgB1, PkgA}
PackageLists == {l \in SeqsUpTo(PackagePool, MaxPackages) : NoRepeat(l)}

UpdIdle ==
    /\ policy_list = <<>> /\ package_list = <<>> /\ multiples = EmptyDict
    /\ updates_available_names = <<>> /\ updPc = "off"

InitUpdVars ==
    /\ policy_list \in PolicyLists
    /\ package_list \in PackageLists
    /\ multiples = EmptyDict
    /\ updates_available_names = <<>>
    /\ updPc = "call"

get_updatable_policies ==
    /\ updPc = "call"
    /\ multiples' = build_package_version_dict(package_list)
    /\ updates_available_names' = NamesOf(PolicyLoop(policy_list, multiples'))
    /\ updPc' = "done"
    /\ UNCHANGED <<policy_list, package_list>>
    /\ UNCHANGED <<searchVars, runVars, scopeVars, parseVars, newestVars,
                 renameVars, promoteVars, reportVars>>

\* --------------------------------------------------------------- update_name
\* str.replace(old, new) for a non-empty old: every occurrence, from the
\* left, without overlap.
RECURSIVE replace(_, _, _)
replace(str, old, new) ==
    IF Len(str) < Len(old) THEN str
    ELSE IF SubSeq(str, 1, Len(old)) = old
         THEN new \o replace(SubSeq(str, Len(old) + 1, Len(str)), old, new)
         ELSE <<Head(str)>> \o replace(Tail(str), old, new)

\* all(changes): every one of them is a non-empty string.
all(changes) == \A i \in DOMAIN changes : changes[i] # None /\ changes[i][1] # <<>>

\* The failure passed over: nothing raised.
update_nameSilent(name, cur, new) == [raised |-> FALSE, name |-> name]

\* tools.py:651-666: whether ValueError is raised, and the text of the name
\* element after the call.  cur and new are the pairs get_package_info gave.
update_nameResult(name, cur, new) ==
    IF all(<<cur.basename, cur.version, new.basename, new.version>>)
    THEN [raised |-> FALSE,
          name |-> replace(replace(name, cur.basename[1], new.basename[1]),
                           cur.version[1], new.version[1])]
    ELSE [raised |-> TRUE, name |-> name]

update_name(name, cur_name, new_name) ==
    update_nameResult(name, get_package_info(cur_name), get_package_info(new_name))

\* Policy names and package names to rename with.
PkgA11 == Name(<<"a", "1", "-", "1">>, DotPkg)
PkgA12 == Name(<<"a", "1", "-", "2">>, DotPkg)
RenamePackages == {PkgA1, PkgA2, PkgB1, PkgA11, PkgA12, PkgA}
PolicyNames ==
    {<<"i", " ", "a", "-", "1">>, <<"a", "-", "1">>, <<"i", " ", "a", "1", "-", "1">>,
     <<"a", "-", "1", " ", "a", "-", "1">>, <<"1", " ", "a">>, <<"i">>, <<>>}

RenameIdle ==
    /\ policy_name = <<>> /\ name_before = <<>> /\ cur_pkg_name = <<>>
    /\ new_pkg_name = <<>> /\ renamePc = "off"

InitRenameVars ==
    /\ policy_name \in PolicyNames
    /\ name_before = policy_name
    /\ cur_pkg_name \in RenamePackages
    /\ new_pkg_name \in RenamePackages
    /\ renamePc = "call"

UpdateName ==
    /\ renamePc = "call"
    /\ LET r == update_name(policy_name, cur_pkg_name, new_pkg_name)
       IN  /\ policy_name' = r.name
           /\ renamePc' = IF r.raised THEN "raised" ELSE "returned"
    /\ UNCHANGED <<name_before, cur_pkg_name, new_pkg_name>>
    /\ UNCHANGED <<searchVars, runVars, scopeVars, parseVars, newestVars,
                 updVars, promoteVars, reportVars>>

\* ------------------------------------------------------------------ promote
\* The packages of the server; PkgB1 is a name that is not among them.
all_packages == {PkgA1, PkgA2, PkgA}
NewPackageArgs == all_packages \cup {PkgB1}
PromotePolicies ==
    {[name |-> n, packages |-> l] :
        n \in {<<"i", " ", "a", "-", "1">>, <<"i">>},
        l \in {x \in SeqsUpTo(all_packages, 2) : x # <<>> /\ NoRepeat(x)}}

PromoteIdle ==
    /\ args = [new_package |-> <<>>, update_name |-> FALSE]
    /\ promotePolicy = [name |-> <<>>, packages |-> <<>>]
    /\ cur_pkg = <<>> /\ promotePc = "off" /\ promoteLog = <<>> /\ saved = <<>>

\* actions.py:664-681: the policy is fetched and its first package name
\* read; the new package name is args.new_package or the choice of the menu.
InitPromoteVars ==
    /\ args \in [new_package : NewPackageArgs, update_name : BOOLEAN]
    /\ promotePolicy \in PromotePolicies
    /\ cur_pkg = promotePolicy.packages[1]
    /\ promotePc = "start"
    /\ promoteLog = <<>>
    /\ saved = <<>>

\* actions.py:684  policy.remove_object_from_list(cur_pkg, ...)
PromoteRemove ==
    /\ promotePc = "start"
    /\ promotePolicy' =
         [promotePolicy EXCEPT
            !.packages = SelectSeq(@, LAMBDA name : name # cur_pkg)]
    /\ promoteLog' = Append(promoteLog, "remove")
    /\ promotePc' = "removed"
    /\ UNCHANGED <<args, cur_pkg, saved>>
    /\ UNCHANGED <<searchVars, runVars, scopeVars, parseVars, newestVars,
                 updVars, renameVars, reportVars>>

\* actions.py:685  policy.add_package(jss_connection.Package(new_pkg_name)),
\* the package being on the server.
PromoteAdd ==
    /\ promotePc = "removed"
    /\ args.new_package \in all_packages
    /\ promotePolicy' = [promotePolicy EXCEPT !.packages = Append(@, args.new_package)]
    /\ promoteLog' = Append(promoteLog, "add")
    /\ promotePc' = "added"
    /\ UNCHANGED <<args, cur_pkg, saved>>
    /\ UNCHANGED <<searchVars, runVars, scopeVars, parseVars, newestVars,
                 updVars, renameVars, reportVars>>

\* actions.py:685  jss_connection.Package(new_pkg_name) raises for a name
\* that is not on the server; promote does not catch it.
PromoteAddRaises ==
    /\ promotePc = "removed"
    /\ args.new_package \notin all_packages
    /\ promotePc' = "aborted"
    /\ UNCHANGED <<args, promotePolicy, cur_pkg, promoteLog, saved>>
    /\ UNCHANGED <<searchVars, runVars, scopeVars, parseVars, newestVars,
                 updVars, renameVars, reportVars>>

\* The ValueError of update_name let through.
AfterValueErrorAborts == "aborted"

\* actions.py:691-692: the ValueError is caught and the run goes on.
AfterValueError == "named"

\* actions.py:688-692
PromoteUpdateName ==
    /\ promotePc = "added"
    /\ args.update_name
    /\ LET r == update_name(promotePolicy.name, cur_pkg, args.new_package)
       IN  /\ promotePolicy' = [promotePolicy EXCEPT !.name = r.name]
           /\ promoteLog' =
                IF r.raised THEN promoteLog \o <<"update_name", "warning">>
                ELSE Append(promoteLog, "update_name")
           /\ promotePc' = IF r.raised THEN AfterValueError ELSE "named"
    /\ UNCHANGED <<args, cur_pkg, saved>>
    /\ UNCHANGED <<searchVars, runVars, scopeVars, parseVars, newestVars,
                 updVars, renameVars, reportVars>>

\* actions.py:695  policy.save()
PromoteSave ==
    /\ \/ promotePc = "named"
       \/ promotePc = "added" /\ ~args.update_name
    /\ saved' = Append(saved, promotePolicy)
    /\ promoteLog' = Append(promoteLog, "save")
    /\ promotePc' = "saved"
    /\ UNCHANGED <<args, promotePolicy, cur_pkg>>
    /\ UNCHANGED <<searchVars, runVars, scopeVars, parseVars, newestVars,
                 updVars, renameVars, reportVars>>

\* ----------------------------------------------------- build_results_string
o10 == [id |-> <<"1", "0">>, name |-> <<"b">>]
ReportObjects == {o1, o4, o10}
ResultArgs ==
    {[kind |-> "none", val |-> <<>>]}
    \cup {[kind |-> "list", val |-> l] : l \in SeqsUpTo(ReportObjects, MaxResults)}
    \cup {[kind |-> "object", val |-> o] : o \in ReportObjects}
HeadingChars == {"h", "\n"}
Headings == {None} \cup {Some(h) : h \in SeqsUpTo(HeadingChars, MaxHeadingLen)}

endswith(str, suffix) ==
    Len(suffix) <= Len(str)
    /\ SubSeq(str, Len(str) - Len(suffix) + 1, Len(str)) = suffix

SetMax(S) == CHOOSE x \in S : \A y \in S : y <= x

\* "{:<{width}}": the spaces after the id.
ljust(str, width) ==
    str \o [i \in 1..(IF width > Len(str) THEN width - Len(str) ELSE 0) |-> " "]

\* "{:>{width}}": the id with spaces before it up to the width.
rjust(str, width) ==
    [i \in 1..(IF width > Len(str) THEN width - Len(str) ELSE 0) |-> " "] \o str

\* The arguments of format() in the other order: the name in the id column.
FormatLineNameFirst(i, width) ==
    <<"I", "D", ":", " ">> \o rjust(i.name, width)
    \o <<"\t", "N", "A", "M", "E", ":", " ">> \o i.id

\* u"ID: {:>{width}}\tNAME: {}".format(i.id, i.name, width=width)
FormatLine(i, width) ==
    <<"I", "D", ":", " ">> \o rjust(i.id, width)
    \o <<"\t", "N", "A", "M", "E", ":", " ">> \o i.name

RECURSIVE join(_, _)
join(sep, strs) ==
    IF strs = <<>> THEN <<>>
    ELSE IF Len(strs) = 1 THEN strs[1]
    ELSE strs[1] \o sep \o join(sep, Tail(strs))

\* str() of one object: its XML, which starts with its id here.
ObjectText(obj) == <<"<", "i", "d", ">">> \o obj.id

\* tools.py:63-67
HeadingText(head) ==
    IF Truthy(head)
    THEN IF ~endswith(head[1], NewLine) THEN head[1] \o NewLine ELSE head[1]
    ELSE <<>>

\* The body for no results left empty.
NoResultsTextEmpty == <<>>

\* tools.py:82
NoResultsText ==
    <<"N", "o", " ", "r", "e", "s", "u", "l", "t", "s", " ",
      "f", "o", "u", "n", "d", ".">>

\* tools.py:69-82: what is added after the heading.
ResultsText(res) ==
    IF res.kind = "list" /\ res.val # <<>>
    THEN LET width == SetMax({Len(res.val[k].id) : k \in DOMAIN res.val})
         IN  join(NewLine, [k \in DOMAIN res.val |-> FormatLine(res.val[k], width)])
    ELSE IF res.kind = "object" THEN ObjectText(res.val)
    ELSE NoResultsText

build_results_string(head, res) == HeadingText(head) \o ResultsText(res) \o NewLine

ReportIdle ==
    /\ heading = None /\ report_results = [kind |-> "none", val |-> <<>>]
    /\ output_string = <<>> /\ reportPc = "off"

InitReportVars ==
    /\ heading \in Headings
    /\ report_results \in ResultArgs
    /\ output_string = <<>>
    /\ reportPc = "call"

BuildResultsString ==
    /\ reportPc = "call"
    /\ output_string' = build_results_string(heading, report_results)
    /\ reportPc' = "done"
    /\ UNCHANGED <<heading, report_results>>
    /\ UNCHANGED <<searchVars, runVars, scopeVars, parseVars, newestVars,
                 updVars, renameVars, promoteVars>>

\* ------------------------------------------ a group scan and its report
\* The groups searched for and the policies of the server: a policy is a
\* container whose scope/computer_groups holds references to groups.
GroupScopePath == "scope/computer_groups/computer_group"
LabMacs == <<"L", "a", "b", " ", "M", "a", "c", "s">>
InstallNethack == <<"I", "n", "s", "t", "a", "l", "l", " ", "N", "e", "t", "h", "a", "c", "k", "-", "3", ".", "4", ".", "3">>
group5 == [id |-> <<"5">>, name |-> LabMacs]
group6 == [id |-> <<"6">>, name |-> <<"S">>]
GroupRef(grp) == [path |-> GroupScopePath, id |-> Some(grp.id), name |-> Some(grp.name)]
ScopedGroups == SeqsUpTo({GroupRef(group5), GroupRef(group6)}, 1)
ScopedPolicy(id, name, refs) == [id |-> id, name |-> name, elements |-> refs]
Policies1 == {ScopedPolicy(<<"1">>, InstallNethack, g) : g \in ScopedGroups}
Policies10 == {ScopedPolicy(<<"1", "0">>, <<"p">>, g) : g \in ScopedGroups}
ScopedPolicyLists ==
    {l \in SeqsUpTo(Policies1 \cup Policies10, MaxContainers) :
        \A i, j \in DOMAIN l : i # j => l[i].id # l[j].id}
GroupArgs ==
    {[kind |-> "object", val |-> g] : g \in {group5, group6}}
    \cup {[kind |-> "list", val |-> l] : l \in SeqsUpTo({group5, group6}, MaxTargets)}

InitGroupScanVars ==
    /\ search_objects \in GroupArgs
    /\ search_path \in {GroupScopePath, PolicyPkgPath}
    /\ containers \in ScopedPolicyLists
    /\ sResults = <<>>
    /\ sResults2 = <<>>
    /\ sPc = "call"
    /\ policyReport = EmptyBag
    /\ imagingReport = EmptyBag

\* The list the scan returned, handed to build_results_string with no
\* heading or with one.
ReportScanResults ==
    /\ sPc = "scanned" /\ reportPc = "off"
    /\ heading' \in {None, Some(<<"h">>)}
    /\ report_results' = [kind |-> "list", val |-> sResults]
    /\ output_string' = build_results_string(heading', report_results')
    /\ reportPc' = "done"
    /\ UNCHANGED <<searchVars, runVars, scopeVars, parseVars, newestVars,
                 updVars, renameVars, promoteVars>>

\* ------------------------------------------------ the command line actions
\* One run of an action against a server that answers every request: a
\* lookup by id or name fails only when no object has that id or name.
\* The server has two computer groups, three computers and two policies;
\* group 5 has computer 3 as its member.
Groups ==
    << [id |-> <<"5">>, name |-> LabMacs, members |-> <<o3>>],
       [id |-> <<"6">>, name |-> <<"S">>, members |-> <<>>] >>
Computers == <<o1, o2, o3>>
ServerPolicies ==
    << [id |-> <<"1">>, name |-> <<"p", "1">>, scope |-> <<>>],
       [id |-> <<"2">>, name |-> <<"p", "2">>, scope |-> <<LabMacs>>] >>

\* The terms of the command line: an id, a wildcard search, and a term that
\* names nothing on the server.
Missing == <<"9">>
GroupTerms == {<<"5">>, Missing}
MemberTerms == {<<"3">>, <<"a", "*">>, Missing}
PolicyTerms == {<<"1">>, <<"p", "*">>, Missing}

NoArgs ==
    [search |-> None, group |-> None, policy |-> <<>>, add |-> <<>>,
     remove |-> <<>>, dry_run |-> FALSE]

Event(op, obj) == [op |-> op, obj |-> obj]

\* Only the first object found is returned.
search_for_objectFirstOnly(srv, term) ==
    LET found == IF search_is_wildcard(term)
                 THEN wildcard_search(srv, term[1], TRUE)
                 ELSE IF Truthy(term)
                 THEN SelectSeq(srv, LAMBDA o : o \in Lookup(srv, term[1]))
                 ELSE srv
    IN  IF found = <<>> THEN <<>> ELSE <<Head(found)>>

\* tools.py:86-130 against such a server: the objects search_for_object
\* returns.  A match of a wildcard search is fetched again by its name.
search_for_object(srv, term) ==
    IF search_is_wildcard(term)
    THEN LET found == wildcard_search(srv, term[1], TRUE)
         IN  [i \in DOMAIN found |-> CHOOSE o \in Lookup(srv, found[i].name) : TRUE]
    ELSE IF Truthy(term)
    THEN (IF Lookup(srv, term[1]) = {} THEN <<>>
          ELSE <<CHOOSE o \in Lookup(srv, term[1]) : TRUE>>)
    ELSE srv

\* tools.py:339-341
RECURSIVE build_group_members(_, _)
build_group_members(srv, searches) ==
    IF searches = <<>> THEN <<>>
    ELSE search_for_object(srv, Some(Head(searches)))
         \o build_group_members(srv, Tail(searches))

\* tools.py:350-352: what add_group_members prints and does.
RECURSIVE AddLog(_)
AddLog(members) ==
    IF members = <<>> THEN <<>>
    ELSE <<Event("adding", Head(members).name), Event("add", Head(members).name)>>
         \o AddLog(Tail(members))

\* The first ValueError ends the removals.
RECURSIVE RemoveLoopStops(_, _)
RemoveLoopStops(current, members) ==
    IF members = <<>> THEN [members |-> current, log |-> <<>>]
    ELSE LET member == Head(members)
         IN  IF InSeq(member, current)
             THEN LET rest == RemoveLoopStops(
                                 SelectSeq(current, LAMBDA m : m # member),
                                 Tail(members))
                  IN  [members |-> rest.members,
                       log |-> <<Event("removing", member.name),
                                 Event("remove", member.name)>> \o rest.log]
             ELSE [members |-> current,
                   log |-> <<Event("removing", member.name),
                             Event("not_member", member.name)>>]

\* tools.py:361-366: remove_method raises ValueError for a device that is
\* not a member; the message is printed and the loop goes on.
RECURSIVE RemoveLoop(_, _)
RemoveLoop(current, members) ==
    IF members = <<>> THEN [members |-> current, log |-> <<>>]
    ELSE LET member == Head(members)
             isMember == InSeq(member, current)
             rest == RemoveLoop(
                        IF isMember
                        THEN SelectSeq(current, LAMBDA m : m # member)
                        ELSE current,
                        Tail(members))
         IN  [members |-> rest.members,
              log |-> <<Event("removing", member.name),
                        Event(IF isMember THEN "remove" ELSE "not_member",
                              member.name)>> \o rest.log]

\* The arguments of each action.
SearchRuns ==
    {[NoArgs EXCEPT !.search = t] : t \in {None} \cup {Some(x) : x \in MemberTerms}}
GroupRuns ==
    {[NoArgs EXCEPT !.search = t, !.add = a, !.remove = r, !.dry_run = d] :
        t \in {None} \cup {Some(x) : x \in GroupTerms},
        a \in SeqsUpTo(MemberTerms, MaxMemberTerms),
        r \in SeqsUpTo(MemberTerms, MaxMemberTerms),
        d \in BOOLEAN}
ScopedRuns == {[NoArgs EXCEPT !.group = Some(t)] : t \in GroupTerms}
BatchRuns ==
    {[NoArgs EXCEPT !.group = Some(t), !.policy = q] :
        t \in GroupTerms \cup {<<"*">>},
        q \in SeqsUpTo(PolicyTerms, MaxQueries)}

CliIdle ==
    /\ command = "off" /\ cliArgs = NoArgs /\ cliPc = "off" /\ cliLog = <<>>
    /\ exit_status = None /\ group = None /\ groups = <<>>
    /\ queryIdx = 0 /\ matched = <<>>

RunStart ==
    /\ cliPc = "start" /\ cliLog = <<>> /\ exit_status = None
    /\ group = None /\ groups = <<>> /\ queryIdx = 0 /\ matched = <<>>

InitCliVars ==
    /\ \/ command = "search" /\ cliArgs \in SearchRuns
       \/ command = "group" /\ cliArgs \in GroupRuns
       \/ command \in {"scoped", "excluded"} /\ cliArgs \in ScopedRuns
       \/ command = "installs" /\ cliArgs \in SearchRuns
       \/ command = "batch_scope" /\ cliArgs \in BatchRuns
    /\ RunStart

promoteRest == <<args, promotePolicy, cur_pkg, promotePc, promoteLog>>
batchVars == <<groups, queryIdx, matched>>
otherTools ==
    <<scopeVars, parseVars, newestVars, updVars, renameVars, reportVars>>

\* Nothing printed for nothing found.
NotFoundSilent(term) == <<>>

\* tools.py:275-276: what the search function prints for nothing found.
NotFoundEvents(term) == <<Event("not_exist", term)>>

\* tools.py:273-281 with the objects of kind srv; search_func returns and
\* the run ends with status 0.
SearchFuncOn(srv) ==
    LET found == search_for_object(srv, cliArgs.search)
        term == IF cliArgs.search = None THEN <<>> ELSE cliArgs.search[1]
    IN  /\ cliLog' = cliLog \o
              (IF found = <<>> THEN NotFoundEvents(term)
               ELSE IF Len(found) > 1 THEN <<Event("list", <<>>)>>
               ELSE <<Event("object", found[1].name)>>)
        /\ exit_status' = Some(0)
        /\ cliPc' = "exited"

\* A search action: tools.py:263-281.
SearchFunc ==
    /\ command = "search" /\ cliPc = "start"
    /\ SearchFuncOn(Computers)
    /\ UNCHANGED <<command, cliArgs, group, batchVars, saved, promoteRest>>
    /\ UNCHANGED <<searchVars, otherTools, menuVars>>

\* actions.py:533-541 and 558-561 of group and md_group.
GroupStart ==
    /\ command = "group" /\ cliPc = "start"
    /\ LET modify == cliArgs.add # <<>> \/ cliArgs.remove # <<>>
       IN  IF ~Truthy(cliArgs.search) /\ modify
           THEN /\ cliLog' = Append(cliLog, Event("please_provide", <<>>))
                /\ exit_status' = Some(1)
                /\ cliPc' = "exited"
                /\ UNCHANGED group
           ELSE IF Truthy(cliArgs.search) /\ modify
           THEN IF Lookup(Groups, cliArgs.search[1]) = {}
                THEN /\ cliLog' = Append(cliLog, Event("group_not_found", <<>>))
                     /\ exit_status' = Some(1)
                     /\ cliPc' = "exited"
                     /\ UNCHANGED group
                ELSE /\ group' = Some(CHOOSE g \in Lookup(Groups, cliArgs.search[1]) : TRUE)
                     /\ cliPc' = "found"
                     /\ UNCHANGED <<cliLog, exit_status>>
           ELSE /\ SearchFuncOn(Groups)
                /\ UNCHANGED group
    /\ UNCHANGED <<command, cliArgs, batchVars, saved, promoteRest>>
    /\ UNCHANGED <<searchVars, otherTools, menuVars>>

\* actions.py:543-546
GroupAdd ==
    /\ command = "group" /\ cliPc = "found"
    /\ LET add_members == build_group_members(Computers, cliArgs.add)
       IN  /\ group' = Some([group[1] EXCEPT !.members = @ \o add_members])
           /\ cliLog' = cliLog \o AddLog(add_members)
    /\ cliPc' = "added"
    /\ UNCHANGED <<command, cliArgs, exit_status, batchVars, saved, promoteRest>>
    /\ UNCHANGED <<searchVars, otherTools, menuVars>>

\* actions.py:548-551
GroupRemove ==
    /\ command = "group" /\ cliPc = "added"
    /\ LET remove_members == build_group_members(Computers, cliArgs.remove)
           r == RemoveLoop(group[1].members, remove_members)
       IN  /\ group' = Some([group[1] EXCEPT !.members = r.members])
           /\ cliLog' = cliLog \o r.log
    /\ cliPc' = "removed"
    /\ UNCHANGED <<command, cliArgs, exit_status, batchVars, saved, promoteRest>>
    /\ UNCHANGED <<searchVars, otherTools, menuVars>>

\* actions.py:553-556, and the end of the run.
GroupFinish ==
    /\ command = "group" /\ cliPc = "removed"
    /\ IF cliArgs.dry_run
       THEN /\ cliLog' = Append(cliLog, Event("print_group", group[1].name))
            /\ UNCHANGED saved
       ELSE /\ cliLog' = Append(cliLog, Event("save", group[1].name))
            /\ saved' = Append(saved, group[1])
    /\ exit_status' = Some(0)
    /\ cliPc' = "exited"
    /\ UNCHANGED <<command, cliArgs, group, batchVars, promoteRest>>
    /\ UNCHANGED <<searchVars, otherTools, menuVars>>

\* actions.py:376-399 of scoped and 571-572, 586-616 of excluded: the
\* lookup of the group is in no try, so a group that is not found ends the
\* run with the traceback of the get error and status 1.
GroupReport ==
    /\ command \in {"scoped", "excluded"} /\ cliPc = "start"
    /\ IF Lookup(Groups, cliArgs.group[1]) = {}
       THEN /\ cliLog' = Append(cliLog, Event("traceback", <<>>))
            /\ exit_status' = Some(1)
       ELSE /\ cliLog' = Append(cliLog, Event("report", <<>>))
            /\ exit_status' = Some(0)
    /\ cliPc' = "exited"
    /\ UNCHANGED <<command, cliArgs, group, batchVars, saved, promoteRest>>
    /\ UNCHANGED <<searchVars, otherTools, menuVars>>

\* actions.py:626-641: the report of installs, whatever the search found.
Installs ==
    /\ command = "installs" /\ cliPc = "start"
    /\ cliLog' = Append(cliLog, Event("report", <<>>))
    /\ exit_status' = Some(0)
    /\ cliPc' = "exited"
    /\ UNCHANGED <<command, cliArgs, group, batchVars, saved, promoteRest>>
    /\ UNCHANGED <<searchVars, otherTools, menuVars>>

\* actions.py:471-474
BatchStart ==
    /\ command = "batch_scope" /\ cliPc = "start"
    /\ groups' = search_for_object(Groups, cliArgs.group)
    /\ cliLog' = Append(cliLog, Event("scoping_to", <<>>))
    /\ queryIdx' = 1
    /\ cliPc' = "query"
    /\ UNCHANGED <<command, cliArgs, exit_status, group, matched, saved, promoteRest>>
    /\ UNCHANGED <<searchVars, otherTools, menuVars>>

\* actions.py:475-476: the policies of the next query.
BatchQuery ==
    /\ command = "batch_scope" /\ cliPc = "query"
    /\ queryIdx <= Len(cliArgs.policy)
    /\ matched' = search_for_object(ServerPolicies, Some(cliArgs.policy[queryIdx]))
    /\ cliLog' = Append(cliLog, Event("query", cliArgs.policy[queryIdx]))
    /\ IF matched' = <<>>
       THEN queryIdx' = queryIdx + 1 /\ UNCHANGED cliPc
       ELSE cliPc' = "policy" /\ UNCHANGED queryIdx
    /\ UNCHANGED <<command, cliArgs, exit_status, group, groups, saved, promoteRest>>
    /\ UNCHANGED <<searchVars, otherTools, menuVars>>

\* A failed save tried once more before the error is let through.
SaveAttemptsRetry(policy) == <<Event("save_failed", policy.name), Event("save_failed", policy.name)>>

\* actions.py:480: a save that fails raises, and nothing catches the error.
SaveAttempts(policy) == <<Event("save_failed", policy.name)>>

RECURSIVE ScopeLog(_, _)
ScopeLog(policy, grps) ==
    IF grps = <<>> THEN <<>>
    ELSE <<Event("scope", Head(grps).name)>> \o ScopeLog(policy, Tail(grps))

\* actions.py:477-481: one policy of the query: the groups are added to its
\* scope, it is saved, and the save succeeds or fails.
BatchScope ==
    /\ command = "batch_scope" /\ cliPc = "policy"
    /\ LET policy == Head(matched)
           scoped == [policy EXCEPT
                        !.scope = @ \o [i \in DOMAIN groups |-> groups[i].name]]
       IN  \E ok \in BOOLEAN :
             /\ saved' = Append(saved, scoped)
             /\ IF ok
                THEN /\ cliLog' = cliLog \o ScopeLog(policy, groups)
                            \o <<Event("save", policy.name), Event("success", policy.name)>>
                     /\ matched' = Tail(matched)
                     /\ IF Tail(matched) = <<>>
                        THEN queryIdx' = queryIdx + 1 /\ cliPc' = "query"
                        ELSE UNCHANGED <<queryIdx, cliPc>>
                     /\ UNCHANGED exit_status
                ELSE /\ cliLog' = cliLog \o ScopeLog(policy, groups)
                            \o SaveAttempts(policy) \o <<Event("traceback", <<>>)>>
                     /\ exit_status' = Some(1)
                     /\ cliPc' = "exited"
                     /\ UNCHANGED <<queryIdx, matched>>
    /\ UNCHANGED <<command, cliArgs, group, groups, promoteRest>>
    /\ UNCHANGED <<searchVars, otherTools, menuVars>>

\* The loop over the queries is over: batch_scope returns.
BatchExit ==
    /\ command = "batch_scope" /\ cliPc = "query"
    /\ queryIdx > Len(cliArgs.policy)
    /\ exit_status' = Some(0)
    /\ cliPc' = "exited"
    /\ UNCHANGED <<command, cliArgs, cliLog, group, batchVars, saved, promoteRest>>
    /\ UNCHANGED <<searchVars, otherTools, menuVars>>

\* promote: args.policy names the policy or nothing on the server.
PromoteRuns == {[NoArgs EXCEPT !.policy = <<t>>] : t \in {<<"i">>, Missing}}

InitCliPromote ==
    /\ command = "promote" /\ cliArgs \in PromoteRuns /\ RunStart
    /\ args \in [new_package : NewPackageArgs, update_name : BOOLEAN]
    /\ promotePolicy \in PromotePolicies
    /\ cur_pkg = promotePolicy.packages[1]
    /\ promotePc = "lookup"
    /\ promoteLog = <<>>
    /\ saved = <<>>

\* actions.py:668-669: jss_connection.Policy(args.policy) is in no try.
PromoteLookup ==
    /\ command = "promote" /\ cliPc = "start"
    /\ IF cliArgs.policy = <<Missing>>
       THEN /\ cliLog' = Append(cliLog, Event("traceback", <<>>))
            /\ exit_status' = Some(1)
            /\ cliPc' = "exited"
            /\ promotePc' = "aborted"
       ELSE /\ cliPc' = "promote"
            /\ promotePc' = "start"
            /\ UNCHANGED <<cliLog, exit_status>>
    /\ UNCHANGED <<command, cliArgs, group, batchVars, saved>>
    /\ UNCHANGED <<args, promotePolicy, cur_pkg, promoteLog>>
    /\ UNCHANGED <<searchVars, otherTools, menuVars>>

\* The end of promote: after the save, actions.py:696-697 and the return;
\* after the get error of the package lookup, the traceback.
PromoteExit ==
    /\ command = "promote" /\ cliPc = "promote"
    /\ promotePc \in {"saved", "aborted"}
    /\ IF promotePc = "saved"
       THEN /\ exit_status' = Some(0)
            /\ UNCHANGED cliLog
       ELSE /\ cliLog' = Append(cliLog, Event("traceback", <<>>))
            /\ exit_status' = Some(1)
    /\ cliPc' = "exited"
    /\ UNCHANGED <<command, cliArgs, group, batchVars, saved, promoteRest>>
    /\ UNCHANGED <<searchVars, otherTools, menuVars>>

\* ------------------------------------------------------------- prompt_user
PromptIdle ==
    /\ options_arg = <<>> /\ expandable_arg = None /\ default_of = None
    /\ prompt_options = <<>> /\ prompt_expandable = None /\ choices = <<>>
    /\ result = None /\ promptPc = "off"

\* The menus a caller can pass: up to MaxMenu options, an expandable list or
\* False, and flags with or without a DEFAULT function.  A flag function is
\* kept as the set of options it holds for.
MenuPool == {PkgA1, PkgA2}
FullPool == {PkgA2, PkgB1}
MenuLists == SeqsUpTo(MenuPool, MaxMenu)
FullLists == SeqsUpTo(FullPool, MaxMenu)
DefaultFlags == {{}, {PkgA2}, {PkgA1, PkgA2, PkgB1}}
\* What the user can type at the prompt.
Inputs == {<<"0">>, <<"1">>, <<"7">>, <<"F">>, <<"f">>, <<>>, <<"x">>}

InitPromptVars ==
    /\ options_arg \in MenuLists
    /\ expandable_arg \in {None} \cup {Some(l) : l \in FullLists}
    /\ default_of \in {None} \cup {Some(d) : d \in DefaultFlags}
    /\ prompt_options = <<>> /\ prompt_expandable = None /\ choices = <<>>
    /\ result = None /\ promptPc = "call"

\* str.isdigit()
isdigit(str) == str # <<>> /\ \A i \in DOMAIN str : str[i] \in DecimalDigits

in_rangeFromOne(val, size) == val < size /\ val >= 1
in_range(val, size) == val < size /\ val >= 0

\* The truth of the local variable expandable: a list that is not empty.
Expandable(e) == e # None /\ e[1] # <<>>

\* if not options: options = expandable; expandable = False.  The flags are
\* then added to a copy of the options: list(False) raises TypeError.
PromptStart ==
    /\ promptPc = "call"
    /\ IF options_arg # <<>>
       THEN /\ prompt_options' = options_arg
            /\ prompt_expandable' = expandable_arg
            /\ promptPc' = "ask"
       ELSE /\ prompt_expandable' = None
            /\ IF expandable_arg = None
               THEN prompt_options' = <<>> /\ promptPc' = "raised"
               ELSE prompt_options' = expandable_arg[1] /\ promptPc' = "ask"
    /\ UNCHANGED <<options_arg, expandable_arg, default_of, choices, result>>
    /\ UNCHANGED <<searchVars, toolVars, cliVars, connVars, warnVars>>

\* results = [option for option in options if flags["DEFAULT"](option)]
DefaultResults(opts, flag) == SelectSeq(opts, LAMBDA o : o \in flag)

\* One turn of the loop: while not result.
Ask ==
    /\ promptPc = "ask"
    /\ Len(choices) < MaxChoices
    /\ \E choice \in Inputs :
        /\ choices' = Append(choices, choice)
        /\ IF isdigit(choice) /\ in_range(IntOf(choice), Len(prompt_options))
           THEN /\ result' = Some(prompt_options[IntOf(choice) + 1])
                /\ UNCHANGED <<prompt_options, prompt_expandable>>
           ELSE IF upper(choice) = <<"F">> /\ Expandable(prompt_expandable)
           THEN /\ prompt_options' = prompt_expandable[1]
                /\ prompt_expandable' = None
                /\ UNCHANGED result
           ELSE IF choice = <<>> /\ default_of # None
           THEN /\ LET results_ == DefaultResults(prompt_options, default_of[1])
                   IN  result' = IF results_ # <<>>
                                 THEN Some(results_[Len(results_)])
                                 ELSE result
                /\ UNCHANGED <<prompt_options, prompt_expandable>>
           ELSE UNCHANGED <<prompt_options, prompt_expandable, result>>
    /\ promptPc' = IF result' # None THEN "returned" ELSE "ask"
    /\ UNCHANGED <<options_arg, expandable_arg, default_of>>
    /\ UNCHANGED <<searchVars, toolVars, cliVars, connVars, warnVars>>

\* ------------------------------------------- the package menu of promote
\* The packages of the server and the first package of the policy.
MenuPackagePool == {PkgA1, PkgA2, PkgBA2, PkgB1}
MenuPackageLists == {l \in SeqsUpTo(MenuPackagePool, MaxPackages) : NoRepeat(l)}
CurrentPackages == {PkgA1, PkgB1, PkgA}

\* sub in str, of two strings.
Contains(sub, str) ==
    \E i \in 0..(Len(str) - Len(sub)) : SubSeq(str, i + 1, i + Len(sub)) = sub

\* [option for option in full_options if cur_pkg_basename and
\*  cur_pkg_basename.upper() in option.upper()]
matching_options(full_options, cur_pkg_basename) ==
    SelectSeq(full_options,
              LAMBDA option : /\ cur_pkg_basename # None
                              /\ Contains(upper(cur_pkg_basename[1]), upper(option)))

\* The sort key of sort_package_list: the upper-cased name, then the
\* LooseVersion.
KeyLess(p, q) ==
    LET byName == CmpStr(upper(package_info(p).basename[1]),
                         upper(package_info(q).basename[1]))
    IN  \/ byName = "lt"
        \/ /\ byName = "eq"
           /\ LooseCmp(package_info(p).version[1], package_info(q).version[1]) = "lt"

\* list.sort is stable: a package goes behind those its key is not below.
RECURSIVE InsertByKey(_, _)
InsertByKey(sorted, p) ==
    IF sorted = <<>> THEN <<p>>
    ELSE IF KeyLess(p, sorted[Len(sorted)])
    THEN Append(InsertByKey(SubSeq(sorted, 1, Len(sorted) - 1), p),
                sorted[Len(sorted)])
    ELSE Append(sorted, p)

RECURSIVE SortByKey(_)
SortByKey(l) ==
    IF l = <<>> THEN <<>>
    ELSE InsertByKey(SortByKey(SubSeq(l, 1, Len(l) - 1)), l[Len(l)])

\* The packages get_package_info fails on are left out.
sort_package_list(packages) ==
    SortByKey(SelectSeq(packages,
                        LAMBDA p : /\ package_info(p).basename # None
                                   /\ package_info(p).version # None))

\* The flag function lambda f: default in f, as the options it holds for.
DefaultFlag(default) == {f \in MenuPackagePool : Contains(default, f)}

\* jss_helper.py:1306-1317: the first package of the policy, the names of
\* the packages of the server and those that match the product name.
InitPackageMenuVars ==
    /\ cur_pkg \in CurrentPackages
    /\ package_list \in MenuPackageLists
    /\ options = matching_options(package_list, package_info(cur_pkg).basename)
    /\ newest = None /\ newestPc = "call"
    /\ policy_list = <<>> /\ multiples = EmptyDict
    /\ updates_available_names = <<>> /\ updPc = "off"
    /\ args = [new_package |-> <<>>, update_name |-> FALSE]
    /\ promotePolicy = [name |-> <<>>, packages |-> <<>>]
    /\ promotePc = "off" /\ promoteLog = <<>> /\ saved = <<>>

\* The lists are sorted, the default is what get_newest_pkg has returned,
\* and prompt_user is called.
PackageMenu ==
    /\ newestPc = "done"
    /\ promptPc = "off"
    /\ options_arg' = sort_package_list(options)
    /\ expandable_arg' = Some(sort_package_list(package_list))
    /\ default_of' = IF newest # None THEN Some(DefaultFlag(newest[1])) ELSE None
    /\ promptPc' = "call"
    /\ UNCHANGED <<prompt_options, prompt_expandable, choices, result>>
    /\ UNCHANGED <<searchVars, toolVars, cliVars, connVars, warnVars>>

\* ----------------------------------------------------------- JSSConnection
ConnIdle ==
    /\ jss_obj = None /\ jss_prefs = None /\ constructed = 0 /\ setups = 0
    /\ returned = <<>>

\* The class as it is when the module has been imported.
InitConnVars == ConnIdle

\* What a client passes to setup(): nothing, a JSSPrefs object or a dict.
\* The two older copies of the class take no argument.
ConnectionArgs == {"none", "prefs", "dict"}
\* jss.JSSPrefs() and jss.JSS() can raise; JSSPrefs() is called only when
\* no connection is passed.
Outcomes(connection) ==
    {"ok", "jss_raises"} \cup (IF connection = "none" THEN {"prefs_raises"} ELSE {})

\* setup(): a JSS object is constructed and kept in _jss; an object is
\* known by the number of its construction.
setup(connection, outcome) ==
    /\ jss_prefs' = IF outcome = "prefs_raises" THEN jss_prefs
                    ELSE IF connection = "none" THEN Some("default")
                    ELSE Some(connection)
    /\ IF outcome = "ok"
       THEN constructed' = constructed + 1 /\ jss_obj' = Some(constructed + 1)
       ELSE UNCHANGED <<constructed, jss_obj>>

\* A client calls setup(), as connect() does.
Setup ==
    /\ setups < MaxSetups
    /\ \E connection \in ConnectionArgs :
           \E outcome \in Outcomes(connection) : setup(connection, outcome)
    /\ setups' = setups + 1
    /\ UNCHANGED returned
    /\ UNCHANGED <<searchVars, toolVars, cliVars, promptVars, warnVars>>

NoConnectionAlways(j) == TRUE
\* not cls._jss
NoConnection(j) == j = None

\* get(): what it returns is appended to returned; a call that raises
\* returns nothing.
Get ==
    /\ Len(returned) < MaxGets
    /\ IF NoConnection(jss_obj)
       THEN \E outcome \in Outcomes("none") :
               /\ setup("none", outcome)
               /\ returned' = IF outcome = "ok" THEN Append(returned, jss_obj')
                               ELSE returned
       ELSE /\ UNCHANGED <<jss_obj, jss_prefs, constructed>>
            /\ returned' = Append(returned, jss_obj)
    /\ UNCHANGED setups
    /\ UNCHANGED <<searchVars, toolVars, cliVars, promptVars, warnVars>>

\* ------------------------------------------------------------- log_warning
WarnIdle ==
    /\ warn_policy = [frequency |-> <<>>, triggers |-> <<>>]
    /\ warn_log = <<>> /\ warnPc = "off"

\* The triggers log_warning looks at, in its order.
Triggers ==
    <<"trigger_checkin", "trigger_enrollment_complete", "trigger_login",
      "trigger_logout", "trigger_network_state_changed", "trigger_startup",
      "trigger_other">>
Ongoing == Some("Ongoing")
\* What findtext gives for a trigger: None when the element is absent, else
\* its text; trigger_other holds the name of a custom event or nothing.
TriggerTexts(trigger) ==
    {None, Some("false"), Some("true"), Some("False")}
        \cup (IF trigger = "trigger_other" THEN {Some("")} ELSE {})
TriggerSettings ==
    {t \in [DOMAIN Triggers -> {None, Some("false"), Some("true"), Some("False"),
                                Some("")}] :
        \A i \in DOMAIN Triggers : t[i] \in TriggerTexts(Triggers[i])}

InitWarnVars ==
    /\ warn_policy \in [frequency : {Ongoing, Some("Once per computer")},
                         triggers : TriggerSettings]
    /\ warn_log = <<>>
    /\ warnPc = "call"

\* value not in [None, "False"]
Counts(value) == value \notin {None, Some("False")}

\* The loop ends at the first trigger that counts: the reminder is printed
\* and open_policy_log_in_browser called.
log_warning ==
    /\ warnPc = "call"
    /\ warn_log' =
            IF /\ warn_policy.frequency # Ongoing
               /\ \E i \in DOMAIN Triggers : Counts(warn_policy.triggers[i])
            THEN <<"Remember to flush the policy logs!", "open_policy_log_in_browser">>
            ELSE <<>>
    /\ warnPc' = "done"
    /\ UNCHANGED warn_policy
    /\ UNCHANGED <<searchVars, toolVars, cliVars, promptVars, connVars>>

\* --------------------------------------------------------- specifications
\* Each specification runs one component; the others are not called.
MenuIdle == PromptIdle /\ ConnIdle /\ WarnIdle
RunIdle == CliIdle /\ MenuIdle
SearchIdle == MatchIdle /\ ResolveIdle /\ ScanIdle
ToolsIdle ==
    /\ ScopeIdle /\ ParseIdle /\ NewestIdle /\ UpdIdle
    /\ RenameIdle /\ PromoteIdle /\ ReportIdle

InitMatch == InitMatchVars /\ ResolveIdle /\ ScanIdle /\ ToolsIdle /\ RunIdle
NextMatch == WildcardSearch
SpecMatch == InitMatch /\ [][NextMatch]_vars

InitResolve == InitResolveVars /\ MatchIdle /\ ScanIdle /\ ToolsIdle /\ RunIdle
NextResolve ==
    \/ CallWildcard
    \/ Refetch
    \/ CallExact
    \/ CallAll
    \/ ServerDelete
SpecResolve == InitResolve /\ [][NextResolve]_vars

InitScan == InitScanVars /\ MatchIdle /\ ResolveIdle /\ ToolsIdle /\ RunIdle
NextScan ==
    \/ FindObjects
    \/ FindObjectsAgain
    \/ get_package_policies
SpecScan == InitScan /\ [][NextScan]_vars

InitScope ==
    /\ InitScopeVars /\ SearchIdle
    /\ ParseIdle /\ NewestIdle /\ UpdIdle /\ RenameIdle /\ PromoteIdle /\ ReportIdle
    /\ RunIdle
NextScope == GetScopedToAll
SpecScope == InitScope /\ [][NextScope]_vars

InitParse ==
    /\ InitParseVars /\ SearchIdle
    /\ ScopeIdle /\ NewestIdle /\ UpdIdle /\ RenameIdle /\ PromoteIdle /\ ReportIdle
    /\ RunIdle
NextParse == GetPackageInfo \/ GetPackageInfoAgain
SpecParse == InitParse /\ [][NextParse]_vars

InitNewest ==
    /\ InitNewestVars /\ SearchIdle
    /\ ScopeIdle /\ ParseIdle /\ UpdIdle /\ RenameIdle /\ PromoteIdle /\ ReportIdle
    /\ RunIdle
NextNewest == get_newest_pkg
SpecNewest == InitNewest /\ [][NextNewest]_vars

InitUpd ==
    /\ InitUpdVars /\ SearchIdle
    /\ ScopeIdle /\ ParseIdle /\ NewestIdle /\ RenameIdle /\ PromoteIdle /\ ReportIdle
    /\ RunIdle
NextUpd == get_updatable_policies
SpecUpd == InitUpd /\ [][NextUpd]_vars

InitRename ==
    /\ InitRenameVars /\ SearchIdle
    /\ ScopeIdle /\ ParseIdle /\ NewestIdle /\ UpdIdle /\ PromoteIdle /\ ReportIdle
    /\ RunIdle
NextRename == UpdateName
SpecRename == InitRename /\ [][NextRename]_vars

InitPromote ==
    /\ InitPromoteVars /\ SearchIdle
    /\ ScopeIdle /\ ParseIdle /\ NewestIdle /\ UpdIdle /\ RenameIdle /\ ReportIdle
    /\ RunIdle
NextPromote ==
    \/ PromoteRemove
    \/ PromoteAdd
    \/ PromoteAddRaises
    \/ PromoteUpdateName
    \/ PromoteSave
SpecPromote == InitPromote /\ [][NextPromote]_vars

InitReport ==
    /\ InitReportVars /\ SearchIdle
    /\ ScopeIdle /\ ParseIdle /\ NewestIdle /\ UpdIdle /\ RenameIdle /\ PromoteIdle
    /\ RunIdle
NextReport == BuildResultsString
SpecReport == InitReport /\ [][NextReport]_vars

InitGroupScan == InitGroupScanVars /\ MatchIdle /\ ResolveIdle /\ ToolsIdle /\ RunIdle
NextGroupScan ==
    \/ FindObjects
    \/ ReportScanResults
SpecGroupScan == InitGroupScan /\ [][NextGroupScan]_vars

InitCli ==
    /\ \/ InitCliVars /\ PromoteIdle
       \/ InitCliPromote
    /\ SearchIdle
    /\ ScopeIdle /\ ParseIdle /\ NewestIdle /\ UpdIdle /\ RenameIdle /\ ReportIdle
    /\ MenuIdle
NextCli ==
    \/ SearchFunc
    \/ GroupStart
    \/ GroupAdd
    \/ GroupRemove
    \/ GroupFinish
    \/ GroupReport
    \/ Installs
    \/ BatchStart
    \/ BatchQuery
    \/ BatchScope
    \/ BatchExit
    \/ PromoteLookup
    \/ PromoteRemove
    \/ PromoteAdd
    \/ PromoteAddRaises
    \/ PromoteUpdateName
    \/ PromoteSave
    \/ PromoteExit
SpecCli == InitCli /\ [][NextCli]_vars

InitPrompt ==
    InitPromptVars /\ SearchIdle /\ ToolsIdle /\ CliIdle /\ ConnIdle /\ WarnIdle
NextPrompt ==
    \/ PromptStart
    \/ Ask
SpecPrompt == InitPrompt /\ [][NextPrompt]_vars

InitConn ==
    InitConnVars /\ SearchIdle /\ ToolsIdle /\ CliIdle /\ PromptIdle /\ WarnIdle
NextConn ==
    \/ Setup
    \/ Get
SpecConn == InitConn /\ [][NextConn]_vars

InitWarn ==
    InitWarnVars /\ SearchIdle /\ ToolsIdle /\ CliIdle /\ PromptIdle /\ ConnIdle
NextWarn == log_warning
SpecWarn == InitWarn /\ [][NextWarn]_vars

InitPackageMenu ==
    /\ InitPackageMenuVars
    /\ SearchIdle /\ ScopeIdle /\ ParseIdle /\ RenameIdle /\ ReportIdle
    /\ CliIdle /\ MenuIdle
NextPackageMenu ==
    \/ get_newest_pkg
    \/ PackageMenu
    \/ PromptStart
    \/ Ask
SpecPackageMenu == InitPackageMenu /\ [][NextPackageMenu]_vars

\* ------------------------------------------------------------- properties
Count(x, s) == Cardinality({i \in DOMAIN s : s[i] = x})

\* r is s with some of its entries left out, the others in place.
RECURSIVE IsSubseq(_, _)
IsSubseq(r, s) ==
    IF r = <<>> THEN TRUE
    ELSE IF s = <<>> THEN FALSE
    ELSE IF Head(r) = Head(s) THEN IsSubseq(Tail(r), Tail(s))
    ELSE IsSubseq(r, Tail(s))

TargetSet(arg) == IF arg.kind = "object" THEN {arg.val} ELSE Range(arg.val)

\* The elements of container c at the path that refer to a target by id or
\* by name.
MatchingElements(c, path, arg) ==
    {k \in DOMAIN c.elements :
        /\ c.elements[k].path = path
        /\ \E t \in TargetSet(arg) :
             c.elements[k].id = Some(t.id) \/ c.elements[k].name = Some(t.name)}

PositionOf(c) == CHOOSE k \in DOMAIN containers : containers[k] = c

\* C1: a container is in the result of the scan if and only if one of its
\* references at the path has the id of a target or the name of a target; a
\* single target object counts as a list of one target.
ScanMembership ==
    sPc = "scanned" =>
        /\ Range(sResults) \subseteq Range(containers)
        /\ \A i \in DOMAIN containers :
             InSeq(containers[i], sResults)
                 <=> MatchingElements(containers[i], search_path, search_objects) # {}

\* A single target object whose name (not its id) is referred to by the
\* second container, while the first container has an element and no match.
ScanMembershipWitness ==
    /\ sPc = "scanned"
    /\ search_objects = [kind |-> "object", val |-> o1]
    /\ Len(containers) = 2
    /\ containers[1].elements # <<>>
    /\ Len(containers[2].elements) = 1
    /\ containers[2].elements[1].id = None
    /\ sResults = <<containers[2]>>

\* C2: the scan emits a container once for every matching reference, and
\* the "installs" action, which wraps the scan in a set, reports every
\* policy and every imaging configuration at most once.
ScanMultiplicity ==
    /\ sPc = "scanned" =>
         \A i \in DOMAIN containers :
            Count(containers[i], sResults)
                = Cardinality(MatchingElements(containers[i], search_path,
                                               search_objects))
    /\ sPc = "reported" =>
         \A c \in Range(containers) :
            /\ CopiesIn(c, policyReport) <= 1
            /\ CopiesIn(c, imagingReport) <= 1
            /\ CopiesIn(c, policyReport) = 1
                 => MatchingElements(c, PolicyPkgPath, search_objects) # {}
            /\ CopiesIn(c, imagingReport) = 1
                 => MatchingElements(c, ImagingPkgPath, search_objects) # {}

\* A policy with two references to the packages is reported once.
ScanMultiplicityWitness ==
    /\ sPc = "reported"
    /\ \E c \in Range(containers) :
         /\ Cardinality(MatchingElements(c, PolicyPkgPath, search_objects)) = 2
         /\ CopiesIn(c, policyReport) = 1

RECURSIVE Fetched(_)
Fetched(log) ==
    IF log = <<>> THEN <<>>
    ELSE (IF Head(log).got = None THEN <<>> ELSE <<Head(log).got[1]>>)
         \o Fetched(Tail(log))

ResolveWildcard ==
    search_is_wildcard(search) =>
        /\ rPc = "raised" => (fetchLog = <<>> /\ listing = None)
        /\ rPc \in {"refetch", "done"} =>
             /\ fetchAllCalls = 1
             /\ listing # None
             /\ wildcard_results = wildcard_search(listing[1], search[1], TRUE)
             /\ Len(fetchLog) = (IF rPc = "done" THEN Len(wildcard_results)
                                 ELSE rIdx - 1)
             /\ \A i \in DOMAIN fetchLog :
                  fetchLog[i].key = wildcard_results[i].name
             /\ results = Fetched(fetchLog)

\* Two matches: the re-fetch of the first failed, the second was still
\* re-fetched and is the result.
ResolveWildcardWitness ==
    /\ rPc = "done"
    /\ search_is_wildcard(search)
    /\ Len(fetchLog) = 2
    /\ fetchLog[1].got = None
    /\ fetchLog[2].got # None
    /\ results = <<fetchLog[2].got[1]>>

\* C6: a search term without wildcard characters makes one fetch by key and
\* no fetch-all; the result is the list of exactly the object found, or the
\* empty result when the lookup fails, and nothing is raised.
ResolveExact ==
    (Truthy(search) /\ ~search_is_wildcard(search)) =>
        /\ rPc \in {"call", "done"}
        /\ rPc = "done" =>
             /\ fetchAllCalls = 0
             /\ Len(fetchLog) = 1
             /\ fetchLog[1].key = search[1]
             /\ fetchLog[1].got # None =>
                  /\ fetchLog[1].got[1] \in Lookup(server, search[1])
                  /\ results = <<fetchLog[1].got[1]>>
             /\ fetchLog[1].got = None => results = <<>>
             /\ Lookup(server, search[1]) = {} => results = <<>>

\* A search by a name no object of the server has: the empty result.
ResolveExactWitness ==
    /\ rPc = "done"
    /\ Truthy(search) /\ ~search_is_wildcard(search)
    /\ server # <<>>
    /\ Lookup(server, search[1]) = {}
    /\ results = <<>>

NoWildcard(pat) == \A i \in DOMAIN pat : ~InSeq(pat[i], WILDCARDS)

\* C7: with the pattern "*" wildcard_search returns the collection as it
\* is, whatever the names and whichever the value of case_sensitive.
WildcardStarIdentity ==
    (wPc = "done" /\ pattern = <<"*">>) => wResults = objects

\* An empty name and a name with a wildcard character, compared without
\* case sensitivity.
WildcardStarIdentityWitness ==
    /\ wPc = "done"
    /\ pattern = <<"*">>
    /\ ~case_sensitive
    /\ objects = <<o4, o3>>
    /\ wResults = objects

\* C8 as stated: with a pattern without wildcard characters the result is
\* the objects whose name equals the pattern.
WildcardExactFilter ==
    (wPc = "done" /\ NoWildcard(pattern)) =>
        wResults = SelectSeq(objects, LAMBDA o : o.name = pattern)

\* C8 as amended: with case_sensitive true (the default) and a pattern
\* without wildcard characters the result is the objects whose name equals
\* the pattern.
WildcardExactFilterCaseSensitive ==
    (wPc = "done" /\ case_sensitive /\ NoWildcard(pattern)) =>
        wResults = SelectSeq(objects, LAMBDA o : o.name = pattern)

\* Pattern "a" over the names "A" and "a": only the second is returned.
WildcardExactFilterWitness ==
    /\ wPc = "done"
    /\ case_sensitive
    /\ pattern = <<"a">>
    /\ objects = <<o2, o1>>
    /\ wResults = <<o1>>

\* C9: with case_sensitive false an object is returned if and only if its
\* name matches the pattern with letter case ignored; with case_sensitive
\* true letter case counts.
WildcardCaseFlag ==
    wPc = "done" =>
        wResults = SelectSeq(objects,
                             LAMBDA o : IF case_sensitive
                                        THEN fnmatchcase(o.name, pattern)
                                        ELSE fnmatchcase(upper(o.name),
                                                         upper(pattern)))

\* C10 as stated: the result is the input with some objects left out, an
\* object that is kept is kept as often as it occurs, and the empty pattern
\* matches no object.
WildcardSubsequenceEmptyMatchesNone ==
    wPc = "done" =>
        /\ IsSubseq(wResults, objects)
        /\ \A o \in Range(objects) :
             Count(o, wResults) \in {0, Count(o, objects)}
        /\ pattern = <<>> => wResults = <<>>

\* C10 as amended: the result is the input with some objects left out, an
\* object that is kept is kept as often as it occurs, and the empty pattern
\* matches the objects whose name is empty and no other object.
WildcardSubsequence ==
    wPc = "done" =>
        /\ IsSubseq(wResults, objects)
        /\ \A o \in Range(objects) :
             Count(o, wResults) \in {0, Count(o, objects)}
        /\ pattern = <<>> =>
             wResults = SelectSeq(objects, LAMBDA o : o.name = <<>>)

\* The same object twice in the input and twice in the result, under a
\* pattern that does not match every name.
WildcardSubsequenceWitness ==
    /\ wPc = "done"
    /\ objects = <<o1, o1>>
    /\ pattern = <<"a">>
    /\ wResults = <<o1, o1>>

\* ------------------------------------------------------------------- C11
\* What the statement says of one container, by kind.
ScopeFlagIsTrue(c) ==
    \/ /\ c.kind \in {"Policy", "OSXConfigurationProfile"}
       /\ c.all_computers = <<"true">>
    \/ /\ c.kind = "MobileDeviceConfigurationProfile"
       /\ c.all_mobile_devices = <<"true">>

ScopeArgList ==
    IF scope_containers.kind = "list" THEN scope_containers.val
    ELSE <<scope_containers.val>>

\* C11: get_scoped_to_all returns the containers of its argument (a single
\* container counting as a one-element list) whose flag, the one of their
\* kind, is literally "true", in the order of the argument and as they were
\* given; a container of neither kind is left out; the argument is the same
\* after the call.
ScopedToAll ==
    /\ [](scopePc = "done" =>
            /\ scope_results = SelectSeq(ScopeArgList, ScopeFlagIsTrue)
            /\ IsSubseq(scope_results, ScopeArgList))
    /\ [][scope_containers' = scope_containers]_vars

\* A list with a mobile-device profile that is kept although its
\* all_computers says "false", a policy that is dropped although its
\* all_mobile_devices says "true", and a result shorter than the list.
ScopedToAllWitness ==
    /\ scopePc = "done"
    /\ scope_containers.kind = "list"
    /\ Len(scope_results) = 1
    /\ \E i, j \in DOMAIN scope_containers.val :
         /\ scope_containers.val[i].kind = "MobileDeviceConfigurationProfile"
         /\ scope_containers.val[i].all_computers = <<"false">>
         /\ scope_results[1] = scope_containers.val[i]
         /\ scope_containers.val[j].kind = "Policy"
         /\ scope_containers.val[j].all_mobile_devices = <<"true">>
         /\ scope_containers.val[j].all_computers # <<"true">>

\* ------------------------------------------------------------------- C12
PlainExtensions == {DotPkg, DotPkg \o DotZip, DotDmg}
ExtensionsOrNewline == PlainExtensions \cup {x \o NewLine : x \in PlainExtensions}

\* name is basename + one separator + version + one of the extensions,
\* from its first character to its last; the basename ends at b and the
\* extension starts at e.
Decomposes(name, b, e, extensions) ==
    /\ 1 <= b /\ b + 2 < e /\ e <= Len(name)
    /\ \A i \in 1..b : name[i] \in BasenameChars
    /\ name[b + 1] \in SeparatorChars
    /\ name[b + 2] \in DecimalDigits
    /\ \A i \in (b + 2)..(e - 1) : name[i] \in VersionChars
    /\ SubSeq(name, e, Len(name)) \in extensions

ParsedAsDecomposition(extensions) ==
    /\ info.basename # None <=>
         \E b, e \in 1..Len(package_name) :
            Decomposes(package_name, b, e, extensions)
    /\ info.basename # None =>
         \E b, e \in 1..Len(package_name) :
            /\ Decomposes(package_name, b, e, extensions)
            /\ info.basename = <<SubSeq(package_name, 1, b)>>
            /\ info.version = <<SubSeq(package_name, b + 2, e - 1)>>
    /\ info.basename = None <=> info.version = None

\* C12 as stated: the name is parsed iff it is basename, separator, version
\* and extension from start to end.
PackageInfoWholeName ==
    /\ parsePc \in {"parsed", "reparsed"} => ParsedAsDecomposition(PlainExtensions)
    /\ parsePc = "reparsed" => info2 = info

\* C12: the name is parsed iff it is basename, separator, version and
\* extension, or that followed by one newline as its last character; the
\* basename and version returned are the parts of such a decomposition;
\* they are absent together; the same name gives the same pair again.
PackageInfo ==
    /\ parsePc \in {"parsed", "reparsed"} => ParsedAsDecomposition(ExtensionsOrNewline)
    /\ parsePc = "reparsed" => info2 = info

\* A name that decomposes in two ways, parsed twice.
PackageInfoWitness ==
    /\ parsePc = "reparsed"
    /\ info.basename # None
    /\ \E b1, b2, e \in 1..Len(package_name) :
         /\ b1 # b2
         /\ Decomposes(package_name, b1, e, PlainExtensions)
         /\ Decomposes(package_name, b2, e, PlainExtensions)

\* ----------------------------------------------------------- C13 and C14
Parsable(name) == package_info(name).version # None
VersionOf(name) == package_info(name).version[1]
ParsableOptions == {i \in DOMAIN options : Parsable(options[i])}

\* C13: get_newest_pkg returns a name of the list whose version is not less,
\* as loose versions compare, than the version of any name of the list that
\* can be parsed; names that cannot be parsed are passed over; it returns
\* None exactly when no name of the list can be parsed.
NewestIsGreatest ==
    newestPc = "done" =>
        /\ newest = None <=> ParsableOptions = {}
        /\ newest # None =>
             /\ \E i \in ParsableOptions : options[i] = newest[1]
             /\ \A i \in ParsableOptions :
                  LooseCmp(VersionOf(newest[1]), VersionOf(options[i])) # "lt"

\* Version 10 is returned from a list that holds version 2 and a name
\* without a version.
NewestIsGreatestWitness ==
    /\ newestPc = "done"
    /\ newest = <<PkgA10>>
    /\ \E i, j \in DOMAIN options : options[i] = PkgA2 /\ options[j] = PkgA

\* The last place in the list of a name with the version of options[i].
LastWithVersionOf(i) ==
    CHOOSE j \in ParsableOptions :
        /\ VersionOf(options[j]) = VersionOf(options[i])
        /\ \A k \in ParsableOptions :
             VersionOf(options[k]) = VersionOf(options[i]) => k <= j

SameVersionPairs ==
    {pair \in ParsableOptions \X ParsableOptions :
        /\ options[pair[1]] # options[pair[2]]
        /\ VersionOf(options[pair[1]]) = VersionOf(options[pair[2]])}

\* C14 as stated: the version of the two names is a greatest one of the list.
NewestTieBreakAmongGreatest ==
    newestPc = "done" =>
        \A pair \in SameVersionPairs :
            (\A k \in ParsableOptions :
                LooseCmp(VersionOf(options[pair[1]]), VersionOf(options[k])) # "lt")
            => newest = <<options[LastWithVersionOf(pair[1])]>>

\* C14: when two different names of the list have the same version string
\* and every other version string of the list compares less than it, the
\* name returned is the one of that version that comes last in the list.
NewestTieBreak ==
    newestPc = "done" =>
        \A pair \in SameVersionPairs :
            (\A k \in ParsableOptions :
                VersionOf(options[k]) # VersionOf(options[pair[1]])
                => LooseCmp(VersionOf(options[pair[1]]), VersionOf(options[k])) = "gt")
            => newest = <<options[LastWithVersionOf(pair[1])]>>

\* Version 1 under two basenames, and a name without a version: the later
\* of the two names is returned.
NewestTieBreakWitness ==
    /\ newestPc = "done"
    /\ options = <<PkgB1, PkgA1, PkgA>>
    /\ newest = <<PkgA1>>

\* ----------------------------------------------------------- C15 and C16
BasenameOf(name) == package_info(name).basename
\* The places in the package list of the entries that parse to basename b.
EntriesOf(b) == {i \in DOMAIN package_list : BasenameOf(package_list[i]) = <<b>>}
ParsedBasenames ==
    {BasenameOf(package_list[i])[1] :
        i \in {j \in DOMAIN package_list : BasenameOf(package_list[j]) # None}}
IsEntryOf(b, name) == BasenameOf(name) = <<b>>
VersionsOfEntries(b) ==
    LET entries == SelectSeq(package_list, LAMBDA name : IsEntryOf(b, name))
    IN  [i \in DOMAIN entries |-> VersionOf(entries[i])]

\* C15: the mapping has a key for a basename exactly when two or more
\* entries of the package list parse to it; the value is the list of the
\* versions of those entries; names that cannot be parsed add nothing.
MultiVersionMapping ==
    updPc = "done" =>
        /\ DOMAIN multiples = {b \in ParsedBasenames : Cardinality(EntriesOf(b)) >= 2}
        /\ \A b \in DOMAIN multiples : multiples[b] = VersionsOfEntries(b)

\* Two versions of "a" with the one package of "b" between them: the
\* mapping has the key "a" alone, with both versions in the order of the list.
MultiVersionMappingWitness ==
    /\ updPc = "done"
    /\ package_list = <<PkgA1, PkgB1, PkgA2>>
    /\ DOMAIN multiples = {<<"a">>}
    /\ multiples[<<"a">>] = <<<<"1">>, <<"2">>>>

\* What the statement says of one policy.
HasNewerVersion(policy) ==
    \E i \in DOMAIN policy.packages :
        LET name == policy.packages[i]
        IN  /\ Parsable(name)
            /\ BasenameOf(name)[1] \in DOMAIN multiples
            /\ \E k \in DOMAIN multiples[BasenameOf(name)[1]] :
                 LooseCmp(VersionOf(name), multiples[BasenameOf(name)[1]][k]) = "lt"

\* C16: the names returned are those of the policies that install at least
\* one package whose basename is in the mapping with a strictly greater
\* version, once each and in the order of the policies; a package whose
\* name cannot be parsed does not count.
UpdatablePolicies ==
    updPc = "done" =>
        updates_available_names = NamesOf(SelectSeq(policy_list, HasNewerVersion))

\* A policy with two outdated packages is listed once; a second policy
\* that installs nothing is not listed.
UpdatablePoliciesWitness ==
    /\ updPc = "done"
    /\ Len(policy_list) = 2
    /\ policy_list[1].packages = <<PkgA1, PkgA2>>
    /\ policy_list[2].packages = <<>>
    /\ package_list = <<PkgA10, PkgA1, PkgA2>>
    /\ updates_available_names = <<policy_list[1].name>>

\* ----------------------------------------------------------- C17 and C18
\* str with every occurrence of b turned into nb and every occurrence of v
\* outside them turned into nv, in one pass from the left; the rest of str
\* is kept as it is.
RECURSIVE ReplaceBoth(_, _, _, _, _)
ReplaceBoth(str, b, nb, v, nv) ==
    IF str = <<>> THEN <<>>
    ELSE IF Len(b) <= Len(str) /\ SubSeq(str, 1, Len(b)) = b
         THEN nb \o ReplaceBoth(SubSeq(str, Len(b) + 1, Len(str)), b, nb, v, nv)
    ELSE IF Len(v) <= Len(str) /\ SubSeq(str, 1, Len(v)) = v
         THEN nv \o ReplaceBoth(SubSeq(str, Len(v) + 1, Len(str)), b, nb, v, nv)
    ELSE <<Head(str)>> \o ReplaceBoth(Tail(str), b, nb, v, nv)

BothParsable == Parsable(cur_pkg_name) /\ Parsable(new_pkg_name)

\* C17: when both package names can be parsed, the name after the call is
\* the name before it with the current basename turned into the new
\* basename and the current version into the new version, and nothing else
\* of it changed.
NameUpdated ==
    (renamePc # "call" /\ BothParsable) =>
        /\ renamePc = "returned"
        /\ policy_name =
             ReplaceBoth(name_before,
                         BasenameOf(cur_pkg_name)[1], BasenameOf(new_pkg_name)[1],
                         VersionOf(cur_pkg_name), VersionOf(new_pkg_name))

\* C18: when one of the two package names cannot be parsed, update_name
\* raises and the name is what it was before the call.
NameKeptOnFailure ==
    (renamePc # "call" /\ ~BothParsable) =>
        renamePc = "raised" /\ policy_name = name_before

\* The new package name has no version; the call has raised.
NameKeptOnFailureWitness ==
    /\ renamePc = "raised"
    /\ Parsable(cur_pkg_name) /\ ~Parsable(new_pkg_name)
    /\ name_before = <<"i", " ", "a", "-", "1">>
    /\ policy_name = name_before

\* ------------------------------------------------------------------- C19
IsPrefix(a, b) == Len(a) <= Len(b) /\ SubSeq(b, 1, Len(a)) = a

NameUpdateFails == ~(Parsable(cur_pkg) /\ Parsable(args.new_package))

\* What a whole run does, in order.
WholeRun ==
    <<"remove", "add">>
    \o (IF args.update_name
        THEN (IF NameUpdateFails THEN <<"update_name", "warning">>
              ELSE <<"update_name">>)
        ELSE <<>>)
    \o <<"save">>

RunOver == promotePc \in {"saved", "aborted"}

NoResultsGiven ==
    \/ report_results.kind = "none"
    \/ report_results.kind = "list" /\ report_results.val = <<>>

HeadingGiven == heading # None /\ heading[1] # <<>>

NoResultsLine ==
    <<"N", "o", " ", "r", "e", "s", "u", "l", "t", "s", " ",
      "f", "o", "u", "n", "d", ".", "\n">>

\* str without the newlines at its end.
RECURSIVE StripNewlines(_)
StripNewlines(str) ==
    IF str # <<>> /\ str[Len(str)] = "\n"
    THEN StripNewlines(SubSeq(str, 1, Len(str) - 1))
    ELSE str

\* C20 as stated: the heading ends with exactly one newline in the output.
NoResultsReportOneNewline ==
    (reportPc = "done" /\ NoResultsGiven) =>
        output_string =
            (IF HeadingGiven THEN StripNewlines(heading[1]) \o <<"\n">> ELSE <<>>)
            \o NoResultsLine

\* C20: with no results the output is the heading, when one is given,
\* followed by a newline unless it already ends with one, then
\* "No results found." and a newline; with no heading it is exactly
\* "No results found." and a newline.
NoResultsReport ==
    (reportPc = "done" /\ NoResultsGiven) =>
        output_string =
            (IF HeadingGiven
             THEN heading[1]
                  \o (IF heading[1][Len(heading[1])] = "\n" THEN <<>> ELSE <<"\n">>)
             ELSE <<>>)
            \o NoResultsLine

\* The heading "h" and an empty list of results.
NoResultsReportWitness ==
    /\ reportPc = "done"
    /\ heading = <<<<"h">>>>
    /\ report_results = [kind |-> "list", val |-> <<>>]
    /\ output_string = <<"h", "\n">> \o NoResultsLine

\* ------------------------------------------------------------------- C21
ResultsGiven == report_results.kind = "list" /\ report_results.val # <<>>

\* The length of the longest id of the results.
LongestId ==
    CHOOSE w \in {Len(report_results.val[k].id) : k \in DOMAIN report_results.val} :
        \A k \in DOMAIN report_results.val : Len(report_results.val[k].id) <= w

Spaces(n) == [i \in 1..n |-> " "]

\* The line of one object, with the newline that ends it.
ReportLine(obj) ==
    <<"I", "D", ":", " ">> \o Spaces(LongestId - Len(obj.id)) \o obj.id
    \o <<"\t", "N", "A", "M", "E", ":", " ">> \o obj.name \o <<"\n">>

\* The lines of the first n results, one after the other.
RECURSIVE ReportLines(_)
ReportLines(n) ==
    IF n = 0 THEN <<>>
    ELSE ReportLines(n - 1) \o ReportLine(report_results.val[n])

ReportHeading ==
    IF HeadingGiven
    THEN heading[1] \o (IF heading[1][Len(heading[1])] = "\n" THEN <<>> ELSE <<"\n">>)
    ELSE <<>>

\* C21: for a non-empty sequence of objects the output is, after the
\* heading, one line for each object in the order of the sequence: "ID: ",
\* the id right-justified to the length of the longest id of the results,
\* a tab, "NAME: " and the name; every line, the last one too, ends with
\* a newline.
ResultsReport ==
    (reportPc = "done" /\ ResultsGiven) =>
        output_string = ReportHeading \o ReportLines(Len(report_results.val))

\* Two objects with ids of one and of two characters, under no heading.
ResultsReportWitness ==
    /\ reportPc = "done"
    /\ heading = None
    /\ report_results = [kind |-> "list", val |-> <<o1, o10>>]
    /\ output_string =
         <<"I", "D", ":", " ", " ", "1", "\t", "N", "A", "M", "E", ":", " ", "a", "\n",
           "I", "D", ":", " ", "1", "0", "\t", "N", "A", "M", "E", ":", " ", "b", "\n">>

\* ------------------------------------------------------------------- C22
\* Policy 1 with group 5 in its scope, group 5 searched for at the path of
\* the computer groups of the scope, over policy 1 alone.
policy1 == ScopedPolicy(<<"1">>, InstallNethack, <<GroupRef(group5)>>)
ScenarioGiven ==
    /\ search_objects = [kind |-> "list", val |-> <<group5>>]
    /\ search_path = GroupScopePath
    /\ containers = <<policy1>>

\* C22 as stated: two spaces between "ID:" and the id.
ScenarioReportTwoSpaces ==
    (ScenarioGiven /\ reportPc = "done" /\ heading = None) =>
        /\ sResults = <<policy1>>
        /\ output_string = <<"I", "D", ":", " ", " ", "1", "\t", "N", "A", "M", "E", ":", " ">> \o InstallNethack \o <<"\n">>

\* C22: the scan of the scenario returns policy 1 alone, and the report of
\* that result with no heading is "ID: 1", a tab, "NAME: Install
\* Nethack-3.4.3" and a newline: the only id has one character, so it is
\* not padded.
ScenarioReport ==
    /\ (ScenarioGiven /\ sPc = "scanned") => sResults = <<policy1>>
    /\ (ScenarioGiven /\ reportPc = "done" /\ heading = None) =>
          output_string = <<"I", "D", ":", " ", "1", "\t", "N", "A", "M", "E", ":", " ">> \o InstallNethack \o <<"\n">>

ScenarioReportWitness ==
    /\ ScenarioGiven /\ reportPc = "done" /\ heading = None
    /\ report_results = [kind |-> "list", val |-> <<policy1>>]
    /\ Len(output_string) = 34

\* ------------------------------------------------------------------- C23
\* The run is a search: a search action, or group / md_group with neither
\* --add nor --remove.
IsSearchRun ==
    \/ command = "search"
    \/ command = "group" /\ cliArgs.add = <<>> /\ cliArgs.remove = <<>>

\* The object named on the command line is not on the server.
SubjectMissing ==
    \/ /\ command = "search" /\ Truthy(cliArgs.search)
       /\ search_for_object(Computers, cliArgs.search) = <<>>
    \/ /\ command = "group" /\ Truthy(cliArgs.search)
       /\ Lookup(Groups, cliArgs.search[1]) = {}
    \/ /\ command \in {"scoped", "excluded"}
       /\ Lookup(Groups, cliArgs.group[1]) = {}
    \/ /\ command = "promote"
       /\ (cliArgs.policy = <<Missing>> \/ args.new_package \notin all_packages)

\* The object named on the command line is on the server.
SubjectFound ==
    \/ /\ command = "search" /\ Truthy(cliArgs.search)
       /\ search_for_object(Computers, cliArgs.search) # <<>>
    \/ /\ command = "group" /\ Truthy(cliArgs.search)
       /\ Lookup(Groups, cliArgs.search[1]) # {}
    \/ /\ command \in {"scoped", "excluded"}
       /\ Lookup(Groups, cliArgs.group[1]) # {}
    \/ /\ command = "promote"
       /\ cliArgs.policy # <<Missing>> /\ args.new_package \in all_packages

RunEnded == exit_status # None

QueryCommands == {"search", "scoped", "excluded", "installs"}

\* The policies of the server that a query of batch_scope names.
PoliciesNamed(query) ==
    IF search_is_wildcard(Some(query))
    THEN {pol \in Range(ServerPolicies) : fnmatchcase(pol.name, query)}
    ELSE {pol \in Range(ServerPolicies) : pol.id = query \/ pol.name = query}

\* How many policies the first n queries name, a policy counted once for
\* each query that names it.
RECURSIVE NamedByQueries(_)
NamedByQueries(n) ==
    IF n = 0 THEN 0
    ELSE NamedByQueries(n - 1) + Cardinality(PoliciesNamed(cliArgs.policy[n]))

Modifies == command = "group" /\ (cliArgs.add # <<>> \/ cliArgs.remove # <<>>)
GroupGiven == Truthy(cliArgs.search)
GroupOnServer == GroupGiven /\ Lookup(Groups, cliArgs.search[1]) # {}

\* The computers of the server that a term of --add or --remove names.
ComputersNamed(term) ==
    IF search_is_wildcard(Some(term))
    THEN {c \in Range(Computers) : fnmatchcase(c.name, term)}
    ELSE {c \in Range(Computers) : c.id = term \/ c.name = term}

RECURSIVE NamedByTerms(_)
NamedByTerms(terms) ==
    IF terms = <<>> THEN 0
    ELSE Cardinality(ComputersNamed(Head(terms))) + NamedByTerms(Tail(terms))

CountOps(ops) == Cardinality({i \in DOMAIN cliLog : cliLog[i].op \in ops})

\* The step of the run an event belongs to.
StepOf(op) ==
    IF op \in {"adding", "add"} THEN 1
    ELSE IF op \in {"removing", "remove", "not_member"} THEN 2
    ELSE 3

\* The additions come first, then the removals, then the one event that
\* ends the run.
InOrder ==
    /\ \A i, j \in DOMAIN cliLog : i < j => StepOf(cliLog[i].op) <= StepOf(cliLog[j].op)
    /\ CountOps({"save", "print_group"}) = 1

Batch == command = "batch_scope"

\* The names of the groups of the server that the group argument names.
GroupsNamed ==
    LET term == cliArgs.group[1]
    IN  IF search_is_wildcard(Some(term))
        THEN {g.name : g \in {x \in Range(Groups) : fnmatchcase(x.name, term)}}
        ELSE {g.name : g \in {x \in Range(Groups) : x.id = term \/ x.name = term}}

SaveEvents == {i \in DOMAIN cliLog : cliLog[i].op \in {"save", "save_failed"}}

\* The events of the policy whose save is event i: from the event after
\* the previous save, query or heading on.
ScopedBefore(i) ==
    {cliLog[j].obj :
        j \in {k \in 1..(i - 1) :
                 /\ cliLog[k].op = "scope"
                 /\ \A m \in k..(i - 1) : cliLog[m].op = "scope"}}

\* How many of the queries name the policy.
QueriesNaming(pol) ==
    Cardinality({n \in DOMAIN cliArgs.policy : pol \in PoliciesNamed(cliArgs.policy[n])})

SavesOf(pol) ==
    Cardinality({i \in SaveEvents : cliLog[i].obj = pol.name})

\* Every save comes after the additions of all the groups named, a policy
\* is saved once for each query that names it, and a failed save is the
\* last thing the run does, but for the traceback.
BatchSaves ==
    /\ \A i \in SaveEvents : ScopedBefore(i) = GroupsNamed
    /\ \A k \in DOMAIN saved : GroupsNamed \subseteq Range(saved[k].scope)
    /\ Len(saved) = Cardinality(SaveEvents)
    /\ \A pol \in Range(ServerPolicies) :
          /\ SavesOf(pol) <= QueriesNaming(pol)
          /\ exit_status = Some(0) => SavesOf(pol) = QueriesNaming(pol)
    /\ \A i \in DOMAIN cliLog :
          cliLog[i].op = "save_failed" =>
              /\ i = Len(cliLog) - 1
              /\ cliLog[Len(cliLog)].op = "traceback"
              /\ exit_status = Some(1)
              /\ \A j \in 1..(i - 1) : cliLog[j].op # "save_failed"

InitialOffer == IF options_arg # <<>> THEN options_arg ELSE expandable_arg[1]
\* The last entry of the user after a turn of the loop.
Entered == choices'[Len(choices')]
NumberInRange(choice) ==
    isdigit(choice) /\ IntOf(choice) \in 0..(Len(prompt_options) - 1)
AsksForFull(choice) == choice \in {<<"F">>, <<"f">>}
\* prompt_user has returned an item of the list it offers, and that list
\* is the initial one or the expandable one.
ReturnsAnOffer ==
    /\ promptPc = "returned" =>
            /\ result # None
            /\ result[1] \in Range(prompt_options)
    /\ promptPc = "ask" => result = None
    /\ promptPc \in {"ask", "returned"} =>
            \/ prompt_options = InitialOffer
            \/ /\ expandable_arg # None
               /\ prompt_options = expandable_arg[1]
               /\ prompt_expandable = None
               /\ \E i \in DOMAIN choices : AsksForFull(choices[i])
\* One turn of the loop.
PromptTurn ==
    (promptPc = "ask" /\ choices' # choices) =>
        /\ NumberInRange(Entered) =>
                /\ promptPc' = "returned"
                /\ result' = Some(prompt_options[IntOf(Entered) + 1])
                /\ prompt_options' = prompt_options
        /\ prompt_options' # prompt_options =>
                /\ AsksForFull(Entered)
                /\ prompt_expandable # None
                /\ prompt_options' = prompt_expandable[1]
                /\ prompt_expandable' = None
                /\ promptPc' = "ask"
        /\ (~NumberInRange(Entered)
                /\ ~(AsksForFull(Entered) /\ Expandable(prompt_expandable))
                /\ ~(Entered = <<>> /\ default_of # None)) =>
                /\ promptPc' = "ask"
                /\ result' = None
                /\ prompt_options' = prompt_options
                /\ prompt_expandable' = prompt_expandable
        /\ prompt_expandable = None => prompt_expandable' = None

EnterPressed == choices # <<>> /\ choices[Len(choices)] = <<>>
OffersADefault ==
    /\ default_of # None
    /\ DefaultResults(prompt_options, default_of[1]) # <<>>

\* C28: in the package menu of promote, Enter chooses the default, the
\* package get_newest_pkg has returned for the packages matching the
\* product name of the policy, whenever there is a default; when no
\* offered option carries the DEFAULT flag the menu is repeated and
\* nothing is chosen.
DefaultChosen ==
    /\ (promptPc = "returned" /\ EnterPressed) =>
            (newest # None /\ result = newest)
    /\ (promptPc \in {"ask", "returned"} /\ EnterPressed /\ newest # None) =>
            promptPc = "returned"
    /\ (promptPc \in {"ask", "returned"} /\ EnterPressed /\ ~OffersADefault) =>
            (promptPc = "ask" /\ result = None)


\* A call of get() that has returned.
GetReturns == returned' # returned
\* One call of get().
GetCall ==
    GetReturns =>
        /\ returned' = Append(returned, jss_obj')
        /\ jss_obj' # None
        /\ jss_obj # None =>
                /\ jss_obj' = jss_obj
                /\ constructed' = constructed
        /\ jss_obj = None => constructed' = constructed + 1
\* Without a call of setup() by a client there is one object at most.
OneConnection ==
    /\ \A i \in DOMAIN returned : returned[i] # None
    /\ constructed <= setups + 1
    /\ setups = 0 =>
            \A i, j \in DOMAIN returned : returned[i] = returned[j]
    /\ jss_obj = None <=> constructed = 0

\* C29: get() never returns an absent connection; it constructs one only
\* when none is kept and returns the kept one otherwise, so that without a
\* call of setup() by a client every get() returns the same object and one
\* object at most is constructed, and each call of setup() by a client
\* adds one construction at most.
SharedConnection == []OneConnection /\ [][GetCall]_vars

\* Three calls of get() and none of setup() by a client: the first call
\* constructs the object that all three return.
SharedConnectionWitness ==
    /\ setups = 0 /\ constructed = 1
    /\ returned = <<Some(1), Some(1), Some(1)>>


\* A trigger is enabled when its text is neither "false" nor empty.
Enabled(value) == value \notin {None, Some("false"), Some("False"), Some("")}
AnyEnabled == \E i \in DOMAIN Triggers : Enabled(warn_policy.triggers[i])
Reminders == {i \in DOMAIN warn_log : warn_log[i] = "Remember to flush the policy logs!"}

\* C30: log_warning prints the reminder and opens the log page only for a
\* policy whose frequency is not "Ongoing" and that has a trigger
\* enabled; with every trigger disabled, or with the frequency "Ongoing",
\* it prints and opens nothing; it prints the reminder once at most.
FlushReminder ==
    warnPc = "done" =>
        /\ warn_log # <<>> => (warn_policy.frequency # Ongoing /\ AnyEnabled)
        /\ Cardinality(Reminders) <= 1

=============================================================================
